---- MODULE Spec2Model ----
(***************************************************************************)
(* A model of the authentication gateway of gem-server                     *)
(* (src/config/gem-server/src/gem/routers/auth.py): the ticket store, the  *)
(* JWT verifier with its verified-token cache, and authenticate_request.   *)
(*                                                                         *)
(* Time is the wall clock in whole seconds.  A handler reads the clock     *)
(* once: every time.time() call of one handler sees the same second.       *)
(* Both caches are cachelib SimpleCache objects; their set/get/prune are   *)
(* modelled as the library computes them (timeout 0 = never expires, a     *)
(* threshold on the number of entries with pruning inside set).            *)
(***************************************************************************)
EXTENDS Integers, Sequences, FiniteSets, TLC

\* ------------------------------------------------------------ bounds

\* The clock runs from 0 to MaxTime seconds.
MaxTime == 4

\* At most MaxTickets calls of POST /tickets in one behaviour.
MaxTickets == 4

\* SimpleCache's threshold (500 in the library), scaled down: a set() on
\* a cache holding more than this many entries prunes it first.
CacheThreshold == 2

\* At most MaxInbound frames arrive from the client in one session.
MaxInbound == 2

\* At most MaxUpstream frames arrive from upstream in one session.
MaxUpstream == 2

\* At most MaxRequests discovery requests in one behaviour.
MaxRequests == 2

\* At most MaxItems items in a sampled response body.
MaxItems == 2

\* At most MaxTtlLen characters in a sampled TICKET_TTL_SECONDS value.
MaxTtlLen == 3

\* ------------------------------------------------------------ constants

\* AuthConfig.__init__ defaults.
default_ticket_ttl == 30

default_cache_ttl == 1800

jwt_algorithms == {"RS256"}

\* Python's None.  Every place the code handles None only tests its
\* truth value, where None and the empty string agree.
None == <<>>

\* ------------------------------------------------------------ helpers

\* Index of the first occurrence of c in s, 0 when there is none
\* (str.find / the split(c, 1) the parsers below rely on).
RECURSIVE FindFrom(_, _, _)
FindFrom(s, c, i) ==
    IF i > Len(s) THEN 0
    ELSE IF s[i] = c THEN i
    ELSE FindFrom(s, c, i + 1)

Find(s, c) == FindFrom(s, c, 1)

\* ------------------------------------------------------------ SimpleCache
\* A cache is the dict of SimpleCache in insertion order: a sequence of
\* entries [key, expires]; expires = 0 means "never expires".

CacheKeys(cache) == {cache[i].key : i \in 1..Len(cache)}

CacheIndex(cache, key) ==
    IF key \in CacheKeys(cache)
    THEN CHOOSE i \in 1..Len(cache) : cache[i].key = key
    ELSE 0

\* SimpleCache._normalize_timeout: a positive timeout becomes an absolute
\* expiry, 0 stays 0.
NormalizeTimeout(timeout, t) ==
    IF timeout > 0 THEN t + timeout ELSE timeout

\* SimpleCache.get, as a truth value (the stored value is always True):
\* the entry exists and (expires == 0 or expires > time()).  get does not
\* change the dict.
CacheGet(cache, key, t) ==
    \E i \in 1..Len(cache) :
        /\ cache[i].key = key
        /\ (cache[i].expires = 0 \/ cache[i].expires > t)

OverThreshold(cache) == Len(cache) > CacheThreshold

\* SimpleCache._remove_expired: drops every entry with expires < now
\* (entries that never expire, expires = 0, included).
RemoveExpired(cache, t) ==
    SelectSeq(cache, LAMBDA e : ~(e.expires < t))

\* Position of entry i in sorted(items, key=expires): a stable sort.
SortRank(cache, i) ==
    Cardinality({j \in 1..Len(cache) :
        \/ cache[j].expires < cache[i].expires
        \/ (cache[j].expires = cache[i].expires /\ j < i)})

RECURSIVE KeepFrom(_, _, _)
KeepFrom(cache, k, i) ==
    IF i > Len(cache) THEN <<>>
    ELSE IF SortRank(cache, i) < k
         THEN KeepFrom(cache, k, i + 1)
         ELSE <<cache[i]>> \o KeepFrom(cache, k, i + 1)

\* SimpleCache._remove_older: pops entries in order of expiry until the
\* cache is no longer over the threshold.
RemoveOlder(cache) ==
    KeepFrom(cache, Len(cache) - CacheThreshold, 1)

\* SimpleCache._prune.
Prune(cache, t) ==
    LET c1 == IF OverThreshold(cache) THEN RemoveExpired(cache, t) ELSE cache
    IN  IF OverThreshold(c1) THEN RemoveOlder(c1) ELSE c1

\* SimpleCache.set(key, True, timeout): normalize, prune, then store.
CacheSet(cache, key, timeout, t) ==
    LET e == [key |-> key, expires |-> NormalizeTimeout(timeout, t)]
        p == Prune(cache, t)
        i == CacheIndex(p, key)
    IN  IF i = 0 THEN Append(p, e) ELSE [p EXCEPT ![i] = e]

\* ------------------------------------------------------------ strings
\* A string is a sequence of tokens.  The tokens "/", "?", "#", "&", "=",
\* " " are those characters; every other token ("ticket", "Bearer", a
\* uuid, a JWT) is a run of characters holding none of them.

Strip(s, c) ==
    IF \A i \in 1..Len(s) : s[i] = c THEN <<>>
    ELSE LET a == CHOOSE i \in 1..Len(s) :
                      s[i] # c /\ \A j \in 1..(i - 1) : s[j] = c
             b == CHOOSE i \in 1..Len(s) :
                      s[i] # c /\ \A j \in (i + 1)..Len(s) : s[j] = c
         IN  SubSeq(s, a, b)

LStrip(s, c) ==
    IF \A i \in 1..Len(s) : s[i] = c THEN <<>>
    ELSE LET a == CHOOSE i \in 1..Len(s) :
                      s[i] # c /\ \A j \in 1..(i - 1) : s[j] = c
         IN  SubSeq(s, a, Len(s))

\* s.split(c): the pieces of s between the occurrences of c.
RECURSIVE Split(_, _)
Split(s, c) ==
    LET i == Find(s, c)
    IN  IF i = 0 THEN <<s>>
        ELSE <<SubSeq(s, 1, i - 1)>> \o Split(SubSeq(s, i + 1, Len(s)), c)

\* urlparse(uri).query: the fragment is cut at the first "#", then the
\* query is what follows the first "?" of the rest.
UrlQuery(uri) ==
    LET h   == Find(uri, "#")
        url == IF h = 0 THEN uri ELSE SubSeq(uri, 1, h - 1)
        q   == Find(url, "?")
    IN  IF q = 0 THEN <<>> ELSE SubSeq(url, q + 1, Len(url))

\* parse_qs(query).get(name): the values of the fields called name, in
\* order.  Fields are separated by "&"; a field without "=" or with an
\* empty value is dropped (keep_blank_values is False).
RECURSIVE FieldValues(_, _)
FieldValues(fields, name) ==
    IF fields = <<>> THEN <<>>
    ELSE LET f  == Head(fields)
             eq == Find(f, "=")
             v  == SubSeq(f, eq + 1, Len(f))
         IN  IF eq # 0 /\ SubSeq(f, 1, eq - 1) = name /\ Len(v) > 0
             THEN <<v>> \o FieldValues(Tail(fields), name)
             ELSE FieldValues(Tail(fields), name)

parse_qs_get(query, name) == FieldValues(Split(query, "&"), name)

\* Mutant of parse_ticket_from_uri: the first value wins (ticket_list[0]).
parse_ticket_first_wins(original_uri) ==
    LET ticket_list == parse_qs_get(UrlQuery(original_uri), <<"ticket">>)
    IN  IF ticket_list # <<>> THEN ticket_list[1] ELSE None

\* AuthService.parse_ticket_from_uri.
parse_ticket_from_uri(original_uri) ==
    LET ticket_list == parse_qs_get(UrlQuery(original_uri), <<"ticket">>)
    IN  IF ticket_list # <<>> THEN ticket_list[Len(ticket_list)] ELSE None

\* auth_header.split(maxsplit=1): at most two parts, split at the first
\* run of blanks; leading blanks are dropped.
SplitOnce(s) ==
    LET a == LStrip(s, " ")
        i == Find(a, " ")
        r == IF i = 0 THEN <<>> ELSE LStrip(SubSeq(a, i + 1, Len(a)), " ")
    IN  IF a = <<>> THEN <<>>
        ELSE IF r = <<>> THEN <<Strip(a, " ")>>
        ELSE <<SubSeq(a, 1, i - 1), r>>

\* str.lower() on the scheme word.
LowerTok(tok) ==
    CASE tok \in {"Bearer", "BEARER", "bearer"} -> "bearer"
      [] tok \in {"Basic", "basic"} -> "basic"
      [] OTHER -> tok

Lower(s) == [i \in 1..Len(s) |-> LowerTok(s[i])]

\* ------------------------------------------------------------ JWT
\* A bearer token is a string; what PyJWT finds in it is given by Claims:
\* whether it parses, its header algorithm, the key its signature was
\* made with, and its exp claim (kind "none", "int" or "float"; at is the
\* claim's value rounded down to whole seconds).

NoExp == [kind |-> "none", at |-> 0]

IntExp(n) == [kind |-> "int", at |-> n]

FloatExp(n) == [kind |-> "float", at |-> n]

Malformed == [parses |-> FALSE, alg |-> "none", signer |-> <<>>, exp |-> NoExp]

Signed(alg, key, exp) ==
    [parses |-> TRUE, alg |-> alg, signer |-> key, exp |-> exp]

Claims(token) ==
    CASE token = <<"jInt">>    -> Signed("RS256", <<"K1">>, IntExp(2))
      [] token = <<"jLate">>   -> Signed("RS256", <<"K1">>, IntExp(3))
      [] token = <<"jFloat">>  -> Signed("RS256", <<"K1">>, FloatExp(2))
      [] token = <<"jNoExp">>  -> Signed("RS256", <<"K1">>, NoExp)
      [] token = <<"jForged">> -> Signed("RS256", <<"KX">>, IntExp(1))
      [] token = <<"jHS">>     -> Signed("HS256", <<"K1">>, NoExp)
      [] OTHER -> Malformed

\* Mutant of decode: the exp claim is checked before the signature.
decode_exp_first(token, key, algorithms, t) ==
    LET c == Claims(token)
    IN  IF ~c.parses THEN "DecodeError"
        ELSE IF c.exp.kind # "none" /\ c.exp.at <= t THEN "ExpiredSignatureError"
        ELSE IF c.alg \notin algorithms THEN "InvalidAlgorithmError"
        ELSE IF c.signer # key THEN "InvalidSignatureError"
        ELSE "payload"

\* jwt.decode(token, key, algorithms): the token is parsed, its algorithm
\* checked against the allowed list, its signature verified, and only
\* then its exp claim compared with the clock (expired when
\* int(exp) <= now).
decode(token, key, algorithms, t) ==
    LET c == Claims(token)
    IN  IF ~c.parses THEN "DecodeError"
        ELSE IF c.alg \notin algorithms THEN "InvalidAlgorithmError"
        ELSE IF c.signer # key THEN "InvalidSignatureError"
        ELSE IF c.exp.kind # "none" /\ c.exp.at <= t THEN "ExpiredSignatureError"
        ELSE "payload"

\* The jwt_cache after a successful decode (lines 172-180): an int exp
\* caches for the remaining seconds when positive, anything else for the
\* default cache TTL.
CacheVerified(cache, token, t) ==
    LET exp == Claims(token).exp
    IN  IF exp.kind = "int" /\ exp.at # 0
        THEN IF exp.at - t > 0
             THEN CacheSet(cache, token, exp.at - t, t)
             ELSE cache
        ELSE CacheSet(cache, token, default_cache_ttl, t)

Response(status, detail, cache, called, decoded) ==
    [status |-> status, detail |-> detail, jwt_cache |-> cache,
     jwt_called |-> called, decoded |-> decoded]

\* What _validate_jwt does with a token that is not served from the cache
\* (lines 167-191).
VerifyFresh(token, key, cache, t) ==
    LET r == decode(token, key, jwt_algorithms, t)
    IN  CASE r = "payload" ->
               Response(200, "Access granted after validation.",
                        CacheVerified(cache, token, t), TRUE, TRUE)
          [] r = "ExpiredSignatureError" ->
               Response(401, "Token has expired", cache, TRUE, TRUE)
          [] OTHER ->
               Response(401, "Invalid token", cache, TRUE, TRUE)

\* Mutant of validate_jwt: the cache is consulted before the key check.
validate_jwt_cache_first(token, key, cache, t) ==
    IF CacheGet(cache, token, t)
    THEN Response(200, "Access granted from cache.", cache, TRUE, FALSE)
    ELSE IF key = None
    THEN Response(503, "JWT public key has not been configured", cache, TRUE, FALSE)
    ELSE VerifyFresh(token, key, cache, t)

\* Mutant of validate_jwt: the cache is never consulted.
validate_jwt_no_cache(token, key, cache, t) ==
    IF key = None
    THEN Response(503, "JWT public key has not been configured", cache, TRUE, FALSE)
    ELSE VerifyFresh(token, key, cache, t)

\* AuthService._validate_jwt.
validate_jwt(token, key, cache, t) ==
    IF key = None
    THEN Response(503, "JWT public key has not been configured", cache, TRUE, FALSE)
    ELSE IF CacheGet(cache, token, t)
    THEN Response(200, "Access granted from cache.", cache, TRUE, FALSE)
    ELSE VerifyFresh(token, key, cache, t)

\* AuthService.validate_ticket.
validate_ticket(cache, ticket, t) == CacheGet(cache, ticket, t)

\* Mutant of authenticate_request: an invalid ticket falls back to the
\* Authorization header.
authenticate_request_fallback(original_uri, auth_header, tcache, jcache, key, t) ==
    LET ticket == parse_ticket_from_uri(original_uri)
        parts  == SplitOnce(auth_header)
    IN  IF ticket # None /\ validate_ticket(tcache, ticket, t)
        THEN Response(200, "Ticket validated.", jcache, FALSE, FALSE)
        ELSE IF auth_header = None
        THEN Response(401, "Authorization header is missing", jcache, FALSE, FALSE)
        ELSE IF Len(parts) # 2 \/ Lower(parts[1]) # <<"bearer">>
        THEN Response(401, "Invalid authorization header format", jcache, FALSE, FALSE)
        ELSE validate_jwt(parts[2], key, jcache, t)

\* Mutant of authenticate_request: the scheme word is not compared.
authenticate_request_any_scheme(original_uri, auth_header, tcache, jcache, key, t) ==
    LET ticket == parse_ticket_from_uri(original_uri)
        parts  == SplitOnce(auth_header)
    IN  IF ticket # None
        THEN IF validate_ticket(tcache, ticket, t)
             THEN Response(200, "Ticket validated.", jcache, FALSE, FALSE)
             ELSE Response(401, "Invalid or expired ticket.", jcache, FALSE, FALSE)
        ELSE IF auth_header = None
        THEN Response(401, "Authorization header is missing", jcache, FALSE, FALSE)
        ELSE IF Len(parts) # 2
        THEN Response(401, "Invalid authorization header format", jcache, FALSE, FALSE)
        ELSE validate_jwt(parts[2], key, jcache, t)

\* AuthService.authenticate_request, as the response and the jwt_cache it
\* leaves (the ticket cache is only read).
authenticate_request(original_uri, auth_header, tcache, jcache, key, t) ==
    LET ticket == parse_ticket_from_uri(original_uri)
        parts  == SplitOnce(auth_header)
    IN  IF ticket # None
        THEN IF validate_ticket(tcache, ticket, t)
             THEN Response(200, "Ticket validated.", jcache, FALSE, FALSE)
             ELSE Response(401, "Invalid or expired ticket.", jcache, FALSE, FALSE)
        ELSE IF auth_header = None
        THEN Response(401, "Authorization header is missing", jcache, FALSE, FALSE)
        ELSE IF Len(parts) # 2 \/ Lower(parts[1]) # <<"bearer">>
        THEN Response(401, "Invalid authorization header format", jcache, FALSE, FALSE)
        ELSE validate_jwt(parts[2], key, jcache, t)

\* ------------------------------------------------------------ AuthConfig

Digits == <<"0", "1", "2", "3", "4", "5", "6", "7", "8", "9">>

RECURSIVE DigitsValue(_)
DigitsValue(s) ==
    IF s = <<>> THEN 0
    ELSE 10 * DigitsValue(SubSeq(s, 1, Len(s) - 1)) + (Find(Digits, s[Len(s)]) - 1)

\* int(raw_value): blanks around are ignored, one optional sign, then one
\* or more decimal digits; anything else is a ValueError.
IsInt(raw) ==
    LET a == Strip(raw, " ")
        d == IF a # <<>> /\ a[1] \in {"-", "+"} THEN Tail(a) ELSE a
    IN  d # <<>> /\ \A i \in 1..Len(d) : Find(Digits, d[i]) # 0

IntValue(raw) ==
    LET a == Strip(raw, " ")
    IN  IF a[1] = "-" THEN 0 - DigitsValue(Tail(a))
        ELSE IF a[1] = "+" THEN DigitsValue(Tail(a))
        ELSE DigitsValue(a)

\* Mutant of load_ticket_ttl: a negative value is taken as it is.
load_ticket_ttl_keep_negative(raw_value) ==
    IF raw_value = None THEN default_ticket_ttl
    ELSE IF IsInt(raw_value) THEN IntValue(raw_value)
    ELSE default_ticket_ttl

\* AuthConfig._load_ticket_ttl; raw_value = None when the variable is unset.
load_ticket_ttl(raw_value) ==
    IF raw_value = None THEN default_ticket_ttl
    ELSE IF IsInt(raw_value) /\ IntValue(raw_value) >= 0 THEN IntValue(raw_value)
    ELSE default_ticket_ttl

\* ------------------------------------------------------------ CDP relay
\* The WebSocket relay of src/config/gem-server/src/gem/routers/cdp.py:
\* CDPProxyConfig, handle_websocket_request, the two forwarding tasks and
\* the private control channel (_handle_custom_command).

\* ---- CDPProxyConfig

\* CDPProxyConfig.custom_command_domain.
custom_command_domain == <<"CDPProxy">>

\* CDP_ORIGIN / CDP_NETLOC values the proxy is started with.  An origin is
\* scheme, "://", authority; "cdp:9222" alone has no "://".
CdpEnv ==
    {[origin |-> None, netloc |-> None],
     [origin |-> <<"http", "://", "cdp:9222">>, netloc |-> None],
     [origin |-> <<"cdp:9222">>, netloc |-> None],
     [origin |-> None, netloc |-> <<"cdp:9222">>],
     [origin |-> <<"http", "://", "cdp:9222">>, netloc |-> <<"chrome">>]}

\* urlparse(origin).netloc: what follows "://", empty without one.
UrlNetloc(origin) ==
    LET i == Find(origin, "://")
    IN  IF i = 0 \/ i = Len(origin) THEN <<>> ELSE <<origin[i + 1]>>

\* CDPProxyConfig._validate_config: the netloc is derived from the
\* origin when only the origin is given.
validate_config(env) ==
    [cdp_origin |-> env.origin,
     cdp_netloc |-> IF env.origin # None /\ env.netloc = None
                       /\ UrlNetloc(env.origin) # <<>>
                    THEN UrlNetloc(env.origin)
                    ELSE env.netloc]

\* Mutant of is_configured: an origin is enough.
is_configured_origin_only(config) == config.cdp_origin # None

\* CDPProxyConfig.is_configured.
is_configured(config) ==
    config.cdp_origin # None /\ config.cdp_netloc # None

\* ---- JSON values

\* A key an object does not hold.
Missing == [t |-> "missing"]

JNull == [t |-> "null"]

JBool(b) == [t |-> "bool", b |-> b]

JNum(n) == [t |-> "num", n |-> n]

JStr(s) == [t |-> "str", s |-> s]

\* An array of n items.
JList(n) == [t |-> "list", len |-> n]

\* The params object of a message: its "enabled" member, or Missing.
JParams(enabled) == [t |-> "obj", enabled |-> enabled]

\* dict.get(key, default) on the member read from the object.
DictGet(member, default) == IF member.t = "missing" THEN default ELSE member

\* Python's bool(value).
Truthy(value) ==
    CASE value.t = "null" -> FALSE
      [] value.t = "bool" -> value.b
      [] value.t = "num"  -> value.n # 0
      [] value.t = "str"  -> value.s # <<>>
      [] value.t = "list" -> value.len # 0
      [] OTHER            -> value.enabled.t # "missing"

\* ---- frames
\* A text frame is described by what is written in it: whether the text
\* is well-formed JSON, the type of the document, and, for an object, its
\* "method", "id" and "params" members as written; every other piece of
\* text of the frame is in "other".  Written strings are sequences of
\* chunks; the chunk "\\u0043" is the JSON escape of the letter C.

TextFrame(wellformed, top, method, id, params, other) ==
    [type |-> "text", wellformed |-> wellformed, top |-> top,
     method |-> method, id |-> id, params |-> params, other |-> other]

BytesFrame(payload) ==
    [type |-> "bytes", wellformed |-> FALSE, top |-> "none",
     method |-> Missing, id |-> Missing, params |-> Missing,
     other |-> payload]

NoFrame == BytesFrame(<<"-">>)

\* A message object {"method": .., "id": .., "params": ..}.
Message(method, id, params) ==
    TextFrame(TRUE, "object", method, id, params, <<>>)

\* The strings written in the frame.
WrittenStrings(data) ==
    {data.other}
    \cup (IF data.method.t = "str" THEN {data.method.s} ELSE {})
    \cup (IF data.id.t = "str" THEN {data.id.s} ELSE {})
    \cup (IF data.params.t = "str" THEN {data.params.s} ELSE {})

\* len(data) = 0.
IsEmpty(data) ==
    /\ data.top = "none"
    /\ data.other = <<>>

\* domain in data: the substring test on the raw text.
DomainIn(domain, data) ==
    \E s \in WrittenStrings(data) : Find(s, domain[1]) # 0

\* The string a written JSON string denotes: escapes are decoded.
RECURSIVE Unescape(_)
Unescape(s) ==
    IF s = <<>> THEN <<>>
    ELSE IF Len(s) >= 2 /\ s[1] = "\\u0043" /\ s[2] = "DPProxy"
    THEN <<"CDPProxy">> \o Unescape(SubSeq(s, 3, Len(s)))
    ELSE <<s[1]>> \o Unescape(Tail(s))

UnescapeValue(value) ==
    IF value.t = "str" THEN JStr(Unescape(value.s)) ELSE value

JSONDecodeError == [t |-> "JSONDecodeError"]

\* json.loads(data).
json_loads(data) ==
    IF ~data.wellformed THEN JSONDecodeError
    ELSE CASE data.top = "object" ->
                  [t |-> "dict", method |-> UnescapeValue(data.method),
                   id |-> UnescapeValue(data.id),
                   params |-> UnescapeValue(data.params)]
           [] data.top = "array"  -> JList(1)
           [] OTHER               -> JStr(Unescape(data.other))

\* str.startswith.
StartsWith(s, prefix) ==
    /\ Len(s) >= Len(prefix)
    /\ SubSeq(s, 1, Len(prefix)) = prefix

\* ---- the control channel

NoReply == [kind |-> "none"]

\* _send_success_response: send_json({"id": command_id, "result": {}}).
send_success_response(command_id) ==
    [kind |-> "json", id |-> command_id, member |-> "result", code |-> 0,
     message |-> ""]

\* JSON-RPC "Method not found".
MethodNotFound == -32601

\* _send_error_response: send_json({"id": .., "error": {code, message}}).
send_error_response(command_id, code, message) ==
    [kind |-> "json", id |-> command_id, member |-> "error", code |-> code,
     message |-> message]

Unhandled(enabled) ==
    [handled |-> FALSE, enabled |-> enabled, reply |-> NoReply]

\* Mutant of handle_custom_command: logging is switched on when "enabled"
\* is absent.
handle_custom_command_default_on(data, enabled) ==
    LET msg_json == json_loads(data)
    IN  IF ~DomainIn(custom_command_domain, data) THEN Unhandled(enabled)
        ELSE IF msg_json.t # "dict" THEN Unhandled(enabled)
        ELSE
        LET method     == msg_json.method
            command_id == DictGet(msg_json.id, JNull)
            params     == DictGet(msg_json.params, JParams(Missing))
        IN  IF ~(method.t = "str"
                 /\ StartsWith(method.s, custom_command_domain \o <<".">>))
            THEN Unhandled(enabled)
            ELSE IF method.s
                      = custom_command_domain \o <<".", "setLoggingEnabled">>
            THEN IF params.t # "obj" THEN Unhandled(enabled)
                 ELSE [handled |-> TRUE,
                       enabled |-> Truthy(DictGet(params.enabled,
                                                  JBool(TRUE))),
                       reply |-> send_success_response(command_id)]
            ELSE [handled |-> TRUE, enabled |-> enabled,
                  reply |-> send_error_response(command_id, MethodNotFound,
                                                "Method not found")]

\* _handle_custom_command: whether the text is a private control message
\* (then handled here, never forwarded), the logging flag afterwards and
\* the reply sent on the inbound connection.  A JSONDecodeError, and an
\* AttributeError raised by .get on a value that is no dict, return False.
handle_custom_command(data, enabled) ==
    LET msg_json == json_loads(data)
    IN  IF ~DomainIn(custom_command_domain, data) THEN Unhandled(enabled)
        ELSE IF msg_json.t # "dict" THEN Unhandled(enabled)
        ELSE
        LET method     == msg_json.method
            command_id == DictGet(msg_json.id, JNull)
            params     == DictGet(msg_json.params, JParams(Missing))
        IN  IF ~(method.t = "str"
                 /\ StartsWith(method.s, custom_command_domain \o <<".">>))
            THEN Unhandled(enabled)
            ELSE IF method.s
                      = custom_command_domain \o <<".", "setLoggingEnabled">>
            THEN IF params.t # "obj" THEN Unhandled(enabled)
                 ELSE [handled |-> TRUE,
                       enabled |-> Truthy(DictGet(params.enabled,
                                                  JBool(FALSE))),
                       reply |-> send_success_response(command_id)]
            ELSE [handled |-> TRUE, enabled |-> enabled,
                  reply |-> send_error_response(command_id, MethodNotFound,
                                                "Method not found")]

\* ---- frames of the model

SetLoggingEnabled == custom_command_domain \o <<".", "setLoggingEnabled">>

\* {"method": "CDPProxy.setLoggingEnabled", "id": 7, "params": ..}
SetLogging(params) == Message(JStr(SetLoggingEnabled), JNum(7), params)

\* {"id": 1, "method": "Page.enable"}
PageEnable == Message(JStr(<<"Page", ".", "enable">>), JNum(1), Missing)

EmptyText == TextFrame(FALSE, "none", Missing, Missing, Missing, <<>>)

\* The inbound frames of the dispatch specification.
ControlFrames ==
    {SetLogging(JParams(JBool(TRUE))),
     SetLogging(JParams(JBool(FALSE))),
     SetLogging(JParams(Missing)),
     SetLogging(Missing),
     SetLogging(JParams(JStr(<<"false">>))),
     SetLogging(JNull),
     SetLogging(JList(1)),
     Message(JStr(SetLoggingEnabled), Missing, JParams(JBool(TRUE))),
     Message(JStr(<<"\\u0043", "DPProxy", ".", "setLoggingEnabled">>),
             JNum(7), JParams(JBool(TRUE))),
     Message(JStr(custom_command_domain \o <<".", "getStatus">>), JNum(8),
             Missing),
     Message(JStr(custom_command_domain \o <<".", "getStatus">>),
             JStr(<<"a">>), JNull),
     Message(JStr(custom_command_domain \o <<".">>), JNum(8), Missing),
     Message(JStr(<<"\\u0043", "DPProxy", ".", "getStatus">>), JNum(8),
             Missing),
     Message(JStr(custom_command_domain \o <<"X", ".", "getStatus">>),
             JNum(8), Missing),
     Message(JStr(custom_command_domain), JNum(8), Missing),
     PageEnable,
     TextFrame(TRUE, "object", JStr(<<"Runtime", ".", "evaluate">>),
               JNum(2), JParams(Missing), SetLoggingEnabled),
     TextFrame(TRUE, "object", JNum(5), JNum(3), Missing,
               custom_command_domain),
     TextFrame(TRUE, "array", Missing, Missing, Missing, SetLoggingEnabled),
     TextFrame(TRUE, "string", Missing, Missing, Missing,
               SetLoggingEnabled),
     TextFrame(FALSE, "none", Missing, Missing, Missing,
               <<"{">> \o SetLoggingEnabled),
     EmptyText,
     BytesFrame(<<"b1">>),
     BytesFrame(<<>>)}

\* The inbound frames of the session specification.
RelayFrames == {PageEnable, SetLogging(JParams(JBool(TRUE))), EmptyText}

UpFrame(type, payload) == [type |-> type, payload |-> payload]

NoMessage == UpFrame("none", <<>>)

\* The frames upstream sends.
UpstreamFrames == {UpFrame("text", <<"e1">>), UpFrame("bytes", <<"e2">>)}

NoClose == [code |-> 0, reason |-> ""]

\* The close frames a peer sends: normal, going away, abnormal.
CloseFrames ==
    {[code |-> 1000, reason |-> ""],
     [code |-> 1001, reason |-> "going away"],
     [code |-> 1011, reason |-> "crashed"]}

\* ---- the session

\* A session before handle_websocket_request runs: the handshake is
\* pending, nothing is connected, no task exists.  upstream_closes counts
\* the closes of cdp_ws, raised is the exception a forwarding task caught
\* with "except Exception", failed tells that an exception left the
\* handler.
NoSession ==
    [pc |-> "start", accepted |-> FALSE,
     application_state |-> "CONNECTING", client_state |-> "CONNECTING",
     upstream |-> "none", connects |-> 0,
     client_to_cdp_task |-> "none", cdp_to_client_task |-> "none",
     data |-> NoFrame, message |-> NoMessage,
     client_close |-> NoClose, upstream_close |-> NoClose,
     upstream_closes |-> 0, raised |-> "none", failed |-> FALSE]

\* Server error, the close code of every failure path.
InternalError == 1011

\* The close code of WebSocket.close() called without one.
NormalClosure == 1000

\* Mutant of websocket_close: a second close sends a second close frame.
websocket_close_again(s, sent, code, reason) ==
    [session |-> [s EXCEPT !.application_state = "DISCONNECTED"],
     to_client |->
         Append(sent,
                IF s.application_state = "CONNECTING"
                THEN [kind |-> "reject", code |-> 403, reason |-> ""]
                ELSE [kind |-> "close", code |-> code, reason |-> reason]),
     raised |-> FALSE]

\* starlette WebSocket.close(code, reason): a close before accept refuses
\* the handshake (HTTP 403, no close frame reaches the peer), a close of
\* an open connection sends the close frame, a second close raises
\* RuntimeError.
websocket_close(s, sent, code, reason) ==
    IF s.application_state = "DISCONNECTED"
    THEN [session |-> s, to_client |-> sent, raised |-> TRUE]
    ELSE [session |-> [s EXCEPT !.application_state = "DISCONNECTED"],
          to_client |->
              Append(sent,
                     IF s.application_state = "CONNECTING"
                     THEN [kind |-> "reject", code |-> 403, reason |-> ""]
                     ELSE [kind |-> "close", code |-> code,
                           reason |-> reason]),
          raised |-> FALSE]

\* data = message.get("text") or message.get("bytes"): a text frame has no
\* "bytes", so an empty text gives None; empty bytes are not None.
NoData == [type |-> "None"]

receive_data(frame) ==
    IF frame.type = "text" /\ IsEmpty(frame) THEN NoData ELSE frame

\* Mutant of forward_client_frame: with logging enabled an ordinary frame
\* is logged and not sent.
forward_client_frame_log_only(frame, enabled) ==
    LET data == receive_data(frame)
    IN  IF data.type = "None"
        THEN [enabled |-> enabled, reply |-> NoReply, forward |-> FALSE]
        ELSE IF data.type = "text"
                /\ handle_custom_command(data, enabled).handled
        THEN [enabled |-> handle_custom_command(data, enabled).enabled,
              reply |-> handle_custom_command(data, enabled).reply,
              forward |-> FALSE]
        ELSE [enabled |-> enabled, reply |-> NoReply, forward |-> ~enabled]

\* One pass of the loop of _forward_client_to_cdp over a received frame:
\* the logging flag afterwards, the reply sent on the inbound connection
\* and whether the frame goes to cdp_ws.send.
forward_client_frame(frame, enabled) ==
    LET data == receive_data(frame)
    IN  IF data.type = "None"
        THEN [enabled |-> enabled, reply |-> NoReply, forward |-> FALSE]
        ELSE IF data.type = "text"
                /\ handle_custom_command(data, enabled).handled
        THEN [enabled |-> handle_custom_command(data, enabled).enabled,
              reply |-> handle_custom_command(data, enabled).reply,
              forward |-> FALSE]
        ELSE [enabled |-> enabled, reply |-> NoReply, forward |-> TRUE]

\* ------------------------------------------------------------ discovery proxy
\* handle_http_request of cdp.py: the /json endpoints, forwarded to the
\* upstream origin with the WebSocket URLs of a 200 response rewritten.

\* ---- headers
\* Headers are sequences of <<name, value>> pairs; starlette gives the
\* names in lower case and keeps repeated names as repeated pairs.

Header(name, value) == <<name, value>>

\* headers.get(name, default): the value of the first pair named name.
HeaderGet(headers, name, default) ==
    IF \E i \in 1..Len(headers) : headers[i][1] = name
    THEN headers[CHOOSE i \in 1..Len(headers) :
                     /\ headers[i][1] = name
                     /\ \A j \in 1..(i - 1) : headers[j][1] # name][2]
    ELSE default

\* dict[key] = value: the value replaces that of an existing key, a new
\* key goes last.
DictSet(dict, key, value) ==
    IF \E i \in 1..Len(dict) : dict[i][1] = key
    THEN [i \in 1..Len(dict) |->
             IF dict[i][1] = key THEN Header(key, value) ELSE dict[i]]
    ELSE Append(dict, Header(key, value))

\* {key: value for key, value in pairs}.
RECURSIVE DictOf(_)
DictOf(pairs) ==
    IF pairs = <<>> THEN <<>>
    ELSE LET front == SubSeq(pairs, 1, Len(pairs) - 1)
             final == pairs[Len(pairs)]
         IN  DictSet(DictOf(front), final[1], final[2])

\* The names handle_http_request does not copy.
SkippedHeaders == {<<"host">>, <<"accept-encoding">>}

\* The headers of the upstream request: every inbound header but host and
\* accept-encoding, as a dict, and Host set to cdp_netloc.
outbound_headers(config, request) ==
    LET headers == DictOf(SelectSeq(request.headers,
                                    LAMBDA h : Lower(h[1])
                                                   \notin SkippedHeaders))
    IN  IF config.cdp_netloc # None
        THEN DictSet(headers, <<"Host">>, config.cdp_netloc)
        ELSE headers

NoOutbound == [method |-> "none", url |-> <<>>, headers |-> <<>>]

\* http_client.get(f"{cdp_origin}{request.url.path}", headers=headers).
outbound_request(config, request) ==
    [method |-> "GET",
     url |-> config.cdp_origin \o request.path,
     headers |-> outbound_headers(config, request)]

\* ---- the body rewrite
\* A body is a sequence of tokens: the quote, "ws://", "wss://", "http://",
\* "/" and runs of characters holding neither a quote nor a slash.

Quote == "\""

HasSlash(token) == token \in {"/", "ws://", "wss://", "http://"}

\* [^/]+ from i on: the last index of the longest run of tokens without
\* a slash; i - 1 when there is none.
RECURSIVE HostEnd(_, _)
HostEnd(body, i) ==
    IF i <= Len(body) /\ ~HasSlash(body[i])
    THEN HostEnd(body, i + 1)
    ELSE i - 1

\* [^"]* from i on: the last index of the longest run of tokens that are
\* not the quote; i - 1 when there is none.
RECURSIVE PathEnd(_, _)
PathEnd(body, i) ==
    IF i <= Len(body) /\ body[i] # Quote
    THEN PathEnd(body, i + 1)
    ELSE i - 1

\* ws_url_pattern, "(ws[s]?://)([^/]+)(/devtools/[^"]*)", matched at i:
\* where group 3 starts and where the closing quote is; 0 when there is
\* no match at i.
MatchAt(body, i) ==
    LET host_end == HostEnd(body, i + 2)
        path_end == PathEnd(body, host_end + 4)
    IN  IF /\ i + 1 <= Len(body)
           /\ body[i] = Quote
           /\ body[i + 1] \in {"ws://", "wss://"}
           /\ host_end >= i + 2
           /\ host_end + 3 <= Len(body)
           /\ body[host_end + 1] = "/"
           /\ body[host_end + 2] = "devtools"
           /\ body[host_end + 3] = "/"
           /\ path_end + 1 <= Len(body)
        THEN [path |-> host_end + 1, end |-> path_end + 1]
        ELSE [path |-> 0, end |-> 0]

\* ws_url_pattern.sub(replace_func, content) from index i on: matches are
\* taken left to right and do not overlap.
RECURSIVE rewrite_from(_, _, _, _, _)
rewrite_from(content, i, proxy_host, prefix, ws_protocol) ==
    IF i > Len(content) THEN <<>>
    ELSE LET m == MatchAt(content, i)
         IN  IF m.end = 0
             THEN <<content[i]>>
                      \o rewrite_from(content, i + 1, proxy_host, prefix,
                                      ws_protocol)
             ELSE <<Quote, ws_protocol>> \o proxy_host \o prefix
                      \o SubSeq(content, m.path, m.end - 1) \o <<Quote>>
                      \o rewrite_from(content, m.end + 1, proxy_host, prefix,
                                      ws_protocol)

\* _rewrite_websocket_urls.
rewrite_websocket_urls(content, proxy_host, prefix, ws_protocol) ==
    rewrite_from(content, 1, proxy_host, prefix, ws_protocol)

\* ---- upstream outcomes

UpstreamResponse(status, headers, body) ==
    [kind |-> "response", status |-> status, headers |-> headers,
     body |-> body, raised |-> "none"]

UpstreamRaises(exception) ==
    [kind |-> "raise", status |-> 0, headers |-> <<>>, body |-> <<>>,
     raised |-> exception]

\* The classes an exception is an instance of (httpx's hierarchy).
ExceptionClasses(exception) ==
    CASE exception \in {"ConnectTimeout", "ReadTimeout"} ->
             {exception, "TimeoutException", "TransportError",
              "RequestError", "Exception"}
      [] exception \in {"ConnectError", "ReadError"} ->
             {exception, "TransportError", "RequestError", "Exception"}
      [] exception = "DecodingError" ->
             {exception, "RequestError", "Exception"}
      [] OTHER -> {exception, "Exception"}

HTTPException(status, detail) ==
    [status |-> status, headers |-> <<>>, body |-> <<>>, detail |-> detail]

\* Mutant of map_exception: the RequestError clause comes first.
map_exception_request_error_first(exception) ==
    IF "RequestError" \in ExceptionClasses(exception)
    THEN HTTPException(502, "CDP connection failed")
    ELSE IF "TimeoutException" \in ExceptionClasses(exception)
    THEN HTTPException(504, "CDP request timeout")
    ELSE HTTPException(500, "Internal server error")

\* The except clauses of handle_http_request, in their order.
map_exception(exception) ==
    IF "TimeoutException" \in ExceptionClasses(exception)
    THEN HTTPException(504, "CDP request timeout")
    ELSE IF "RequestError" \in ExceptionClasses(exception)
    THEN HTTPException(502, "CDP connection failed")
    ELSE HTTPException(500, "Internal server error")

\* Mutant of forward_response: every response is rewritten.
forward_response_rewrite_all(request, outcome) ==
    IF outcome.kind = "raise" THEN map_exception(outcome.raised)
    ELSE [status |-> outcome.status,
          headers |-> outcome.headers,
          body |-> rewrite_websocket_urls(
                       outcome.body,
                       HeaderGet(request.headers, <<"host">>, request.netloc),
                       HeaderGet(request.headers, <<"x-forwarded-prefix">>,
                                 <<>>),
                       IF request.scheme = "https" THEN "wss://"
                       ELSE "ws://"),
          detail |-> ""]

\* The try block of handle_http_request after the upstream request: a
\* response that is not 200 is returned as it is, the body of a 200 is
\* rewritten and returned with the upstream content type.
forward_response(request, outcome) ==
    IF outcome.kind = "raise" THEN map_exception(outcome.raised)
    ELSE IF outcome.status # 200
    THEN [status |-> outcome.status, headers |-> outcome.headers,
          body |-> outcome.body, detail |-> ""]
    ELSE [status |-> outcome.status,
          headers |->
              IF HeaderGet(outcome.headers, <<"content-type">>, None) # None
              THEN <<Header(<<"content-type">>,
                            HeaderGet(outcome.headers, <<"content-type">>,
                                      None))>>
              ELSE <<>>,
          body |-> rewrite_websocket_urls(
                       outcome.body,
                       HeaderGet(request.headers, <<"host">>, request.netloc),
                       HeaderGet(request.headers, <<"x-forwarded-prefix">>,
                                 <<>>),
                       IF request.scheme = "https" THEN "wss://"
                       ELSE "ws://"),
          detail |-> ""]

\* ---- the requests and upstream outcomes of the model

HttpRequestOf(method, scheme, netloc, path, headers) ==
    [method |-> method, scheme |-> scheme, netloc |-> netloc, path |-> path,
     headers |-> headers]

PublicHost == Header(<<"host">>, <<"pub.example">>)

ForwardedPrefix == Header(<<"x-forwarded-prefix">>, <<"/", "cdp">>)

\* Inbound requests to /json and /json/{path}.
HttpRequests ==
    {HttpRequestOf("GET", "http", <<"10.0.0.1:80">>, <<"/", "json">>,
                   <<PublicHost, Header(<<"accept">>, <<"*/*">>)>>),
     HttpRequestOf("GET", "https", <<"10.0.0.1:443">>,
                   <<"/", "json", "/", "version">>,
                   <<PublicHost, ForwardedPrefix,
                     Header(<<"accept-encoding">>, <<"gzip">>)>>),
     HttpRequestOf("POST", "http", <<"10.0.0.1:80">>,
                   <<"/", "json", "/", "new">>,
                   <<PublicHost, ForwardedPrefix,
                     Header(<<"content-length">>, <<"0">>)>>),
     HttpRequestOf("GET", "https", <<"10.0.0.1:443">>, <<"/", "json">>,
                   <<Header(<<"accept">>, <<"*/*">>)>>),
     HttpRequestOf("GET", "http", <<"10.0.0.1:80">>,
                   <<"/", "json", "/", "list">>,
                   <<PublicHost, Header(<<"x-trace">>, <<"a">>),
                     Header(<<"x-trace">>, <<"b">>)>>)}

\* The pieces a response body is made of: a quoted session URL, one with
\* wss and another host, a quoted ws URL without a path, a quoted
\* relative path, a quoted http URL, an unquoted session URL, a quoted ws
\* URL with another path.
BodyItems ==
    {<<Quote, "ws://", "cdp:9222", "/", "devtools", "/", "page", "/", "A",
       Quote>>,
     <<Quote, "wss://", "other", "/", "devtools", "/", "browser", Quote>>,
     <<Quote, "ws://", "x", Quote>>,
     <<Quote, "y", "/", "devtools", "/", "z", Quote>>,
     <<Quote, "http://", "cdp:9222", "/", "devtools", "/", "inspector",
       Quote>>,
     <<"ws://", "cdp:9222", "/", "devtools", "/", "page", "/", "B">>,
     <<Quote, "ws://", "cdp:9222", "/", "json", Quote>>}

ItemSeqs == UNION {[1..n -> BodyItems] : n \in 0..MaxItems}

RECURSIVE JoinItems(_)
JoinItems(items) ==
    IF items = <<>> THEN <<>>
    ELSE IF Len(items) = 1 THEN items[1]
    ELSE items[1] \o <<",">> \o JoinItems(Tail(items))

\* The JSON text of a response: the items in an array.
RenderBody(items) == <<"[">> \o JoinItems(items) \o <<"]">>

JsonType == Header(<<"content-type">>, <<"application/json">>)

\* The inputs of one forward: the request, what upstream answers, and
\* the items the answer's body was made of.
ForwardSamples ==
    {[request |-> request,
      outcome |-> UpstreamResponse(status,
                                   <<JsonType, Header(<<"server">>, <<"x">>)>>,
                                   RenderBody(items)),
      items |-> items] :
        request \in HttpRequests, status \in {200, 204, 404, 500},
        items \in ItemSeqs}

\* What upstream answers in the lifecycle specification.
HttpOutcomes ==
    {UpstreamResponse(200, <<JsonType>>,
                      RenderBody(<<<<Quote, "ws://", "cdp:9222", "/",
                                     "devtools", "/", "page", "/", "A",
                                     Quote>>>>)),
     UpstreamResponse(500, <<JsonType>>, <<"oops">>),
     UpstreamRaises("ConnectTimeout"),
     UpstreamRaises("ReadTimeout"),
     UpstreamRaises("ConnectError"),
     UpstreamRaises("DecodingError"),
     UpstreamRaises("InvalidURL"),
     UpstreamRaises("RuntimeError")}

\* ---- CDPProxyService

NoExchange ==
    [request |-> HttpRequestOf("none", "", <<>>, <<>>, <<>>),
     outbound |-> NoOutbound,
     outcome |-> UpstreamRaises("none"),
     response |-> HTTPException(0, ""),
     sends |-> 0]

\* The service after startup(): no client (http_client is None, written
\* 0), nothing in flight.  created counts the AsyncClient objects made,
\* aclosed lists the clients aclose() was called on; sends counts the
\* requests sent upstream for one inbound request.
NoHttp ==
    [http_client |-> 0, created |-> 0, aclosed |-> <<>>,
     lifespan |-> "running", requests |-> 0, inflight |-> <<>>,
     exchange |-> NoExchange]

\* Mutant of get_http_client: every call makes a client.
get_http_client_fresh(h) ==
    [h EXCEPT !.http_client = h.created + 1, !.created = h.created + 1]

\* get_http_client: the client is made on first use.
get_http_client(h) ==
    IF h.http_client = 0
    THEN [h EXCEPT !.http_client = h.created + 1, !.created = h.created + 1]
    ELSE h

IsClosed(h, client) == \E i \in 1..Len(h.aclosed) : h.aclosed[i] = client

\* ------------------------------------------------------------ state

VARIABLES
    jwt_public_key,   \* AuthConfig.jwt_public_key: None or the key
    ticket_ttl,       \* AuthConfig.ticket_ttl, seconds
    ticket_cache,     \* AuthService.ticket_cache
    jwt_cache,        \* AuthService.jwt_cache
    now,              \* the wall clock, whole seconds
    issued,           \* issued[n]: the second ticket n was created (history)
    last,             \* the last request and its response (history)
    sample,           \* the input of a pure function under check
    cdp_config,       \* CDPProxyConfig: cdp_origin, cdp_netloc
    session,          \* one run of handle_websocket_request and its tasks
    logging_state,    \* LoggingState.enabled of the session
    inbound,          \* the frames received from the client (history)
    to_upstream,      \* the frames sent to upstream (history)
    from_upstream,    \* the frames received from upstream (history)
    to_client,        \* what was sent on the inbound connection (history)
    twin,             \* a second run fed the same frames
    http              \* CDPProxyService.http_client and the requests

authVars ==
    <<jwt_public_key, ticket_ttl, ticket_cache, jwt_cache, now, issued, last,
      sample>>

sessionVars ==
    <<session, logging_state, inbound, to_upstream, from_upstream, to_client,
      twin>>

relayVars == <<cdp_config, sessionVars, http>>

vars == <<authVars, relayVars>>

\* str(uuid.uuid4()) of the n-th call: distinct calls give distinct strings.
Uuid(n) == <<ToString(n)>>

\* TICKET_TTL_SECONDS values the service is started with.
TicketTtlEnv ==
    {None, <<"0">>, <<" ", "1">>, <<"-", "1">>, <<"1", "x">>}

\* Keys JWT_PUBLIC_KEY decodes to; None when unset or undecodable.
PublicKeys == {<<"K1">>, <<"K2">>}

NoRequest ==
    [op |-> "none", original_uri |-> <<>>, auth_header |-> None,
     status |-> 0, detail |-> "", jwt_called |-> FALSE, decoded |-> FALSE,
     ticket |-> None, expires_in |-> 0]

NoSample == [fields |-> <<>>, uri |-> <<>>]

NoTwin == [logging_state |-> FALSE, to_upstream |-> <<>>, to_client |-> <<>>]

\* The gateway at rest: the state the relay specifications keep it in.
AuthIdle ==
    /\ jwt_public_key = None
    /\ ticket_ttl = default_ticket_ttl
    /\ ticket_cache = <<>>
    /\ jwt_cache = <<>>
    /\ now = 0
    /\ issued = <<>>
    /\ last = NoRequest
    /\ sample = NoSample

\* The relay at rest: the state the gateway specifications keep it in.
RelayIdle ==
    /\ cdp_config = validate_config([origin |-> None, netloc |-> None])
    /\ session = NoSession
    /\ logging_state = FALSE
    /\ inbound = <<>>
    /\ to_upstream = <<>>
    /\ from_upstream = <<>>
    /\ to_client = <<>>
    /\ twin = NoTwin
    /\ http = NoHttp

\* The service after startup(): empty caches, the configuration loaded
\* from the environment.
Init ==
    /\ jwt_public_key \in {None, <<"K1">>}
    /\ ticket_ttl \in {load_ticket_ttl(raw) : raw \in TicketTtlEnv}
    /\ ticket_cache = <<>>
    /\ jwt_cache = <<>>
    /\ now = 0
    /\ issued = <<>>
    /\ last = NoRequest
    /\ sample = NoSample
    /\ RelayIdle

\* ------------------------------------------------------------ actions

\* POST /tickets: AuthService.create_ticket.
CreateTicket ==
    /\ Len(issued) < MaxTickets
    /\ LET ticket == Uuid(Len(issued) + 1)
       IN  /\ ticket_cache' = CacheSet(ticket_cache, ticket, ticket_ttl, now)
           /\ last' = [NoRequest EXCEPT !.op = "create_ticket", !.status = 200,
                                        !.ticket = ticket,
                                        !.expires_in = ticket_ttl]
    /\ issued' = Append(issued, now)
    /\ UNCHANGED <<jwt_public_key, ticket_ttl, jwt_cache, now, sample>>
    /\ UNCHANGED relayVars

\* Mutant of Authenticate: an accepted ticket is deleted (single use).
Authenticate_SingleUse(original_uri, auth_header) ==
    LET r == authenticate_request(original_uri, auth_header, ticket_cache,
                                  jwt_cache, jwt_public_key, now)
        t == parse_ticket_from_uri(original_uri)
    IN  /\ jwt_cache' = r.jwt_cache
        /\ ticket_cache' =
               IF r.detail = "Ticket validated."
               THEN SelectSeq(ticket_cache, LAMBDA e : e.key # t)
               ELSE ticket_cache
        /\ last' = [NoRequest EXCEPT !.op = "authenticate",
                                     !.original_uri = original_uri,
                                     !.auth_header = auth_header,
                                     !.status = r.status, !.detail = r.detail,
                                     !.jwt_called = r.jwt_called,
                                     !.decoded = r.decoded]
        /\ UNCHANGED <<jwt_public_key, ticket_ttl, now, issued, sample>>
        /\ UNCHANGED relayVars

\* GET /auth: AuthService.authenticate_request.
Authenticate(original_uri, auth_header) ==
    LET r == authenticate_request(original_uri, auth_header, ticket_cache,
                                  jwt_cache, jwt_public_key, now)
    IN  /\ jwt_cache' = r.jwt_cache
        /\ last' = [NoRequest EXCEPT !.op = "authenticate",
                                     !.original_uri = original_uri,
                                     !.auth_header = auth_header,
                                     !.status = r.status, !.detail = r.detail,
                                     !.jwt_called = r.jwt_called,
                                     !.decoded = r.decoded]
        /\ UNCHANGED <<jwt_public_key, ticket_ttl, ticket_cache, now, issued,
                       sample>>
        /\ UNCHANGED relayVars

\* One second passes.
Tick ==
    /\ now < MaxTime
    /\ now' = now + 1
    /\ last' = [NoRequest EXCEPT !.op = "tick"]
    /\ UNCHANGED <<jwt_public_key, ticket_ttl, ticket_cache, jwt_cache, issued,
                   sample>>
    /\ UNCHANGED relayVars

\* config.jwt_public_key is reassigned: another, unrelated key, or no key
\* (the replay test of the verified-token cache).
SubstituteKey ==
    /\ \E k \in (PublicKeys \cup {None}) \ {jwt_public_key} :
           jwt_public_key' = k
    /\ last' = [NoRequest EXCEPT !.op = "substitute_key"]
    /\ UNCHANGED <<ticket_ttl, ticket_cache, jwt_cache, now, issued, sample>>
    /\ UNCHANGED relayVars

\* ---- the ticket store and the gateway's ticket path

\* X-Original-URI values of the requests ("" when the header is absent).
TicketUris ==
    {<<>>,
     <<"/", "cdp", "?", "ticket", "=">>,
     <<"/", "cdp", "?", "ticket", "=", "zz", "&", "ticket", "=", "1">>,
     <<"/", "cdp", "?", "ticket", "=", "1", "&", "ticket", "=", "zz">>}
    \cup {<<"/", "cdp", "?", "ticket", "=", ToString(n)>> : n \in 1..2}

\* Authorization header values of the requests (None when absent).
TicketHeaders == {None, <<"Bearer", " ", "jInt">>}

Next ==
    \/ CreateTicket
    \/ \E u \in TicketUris, h \in TicketHeaders : Authenticate(u, h)
    \/ Tick

Spec == Init /\ [][Next]_vars

\* ---- the JWT verifier and the gateway's bearer path

JwtTokens ==
    {<<"jInt">>, <<"jFloat">>, <<"jNoExp">>, <<"jForged">>, <<"jHS">>,
     <<"junk">>}

JwtUris == {<<>>, <<"/", "cdp", "?", "x", "=", "1">>}

JwtHeaders ==
    {None, <<" ">>, <<"Bearer">>, <<"Bearer", " ">>,
     <<"Basic", " ", "jNoExp">>, <<"BEARER", " ", " ", "jNoExp">>}
    \cup {<<"Bearer", " ", j[1]>> : j \in JwtTokens}

NextJwt ==
    \/ \E u \in JwtUris, h \in JwtHeaders : Authenticate(u, h)
    \/ Tick
    \/ SubstituteKey

SpecJwt == Init /\ [][NextJwt]_vars

\* ---- the gateway with one ticket issued: ticket and bearer requests,
\* enough verifiable tokens to fill the verified-token cache.

AuthorizeUris ==
    {<<>>,
     <<"/", "cdp", "?", "ticket", "=", "1">>,
     <<"/", "cdp", "?", "ticket", "=", "zz">>}

AuthorizeHeaders ==
    {None, <<"Basic", " ", "jNoExp">>}
    \cup {<<"Bearer", " ", j>> :
              j \in {"jInt", "jLate", "jFloat", "jNoExp", "jForged", "junk"}}

\* The service after one POST /tickets at time 0.
InitAuthorize ==
    /\ jwt_public_key \in {None, <<"K1">>}
    /\ ticket_ttl = load_ticket_ttl(<<"1">>)
    /\ ticket_cache = CacheSet(<<>>, Uuid(1), ticket_ttl, 0)
    /\ jwt_cache = <<>>
    /\ now = 0
    /\ issued = <<0>>
    /\ last = NoRequest
    /\ sample = NoSample
    /\ RelayIdle

NextAuthorize ==
    \/ \E u \in AuthorizeUris, h \in AuthorizeHeaders : Authenticate(u, h)
    \/ Tick

SpecAuthorize == InitAuthorize /\ [][NextAuthorize]_vars

\* ---- parse_ticket_from_uri on its own

\* At most MaxFields fields in a sampled query string.
MaxFields == 3

Field(name, eq, value) == [name |-> name, eq |-> eq, value |-> value]

\* The query fields the samples are built from: name, whether an "="
\* follows, value.
FieldChoices ==
    {Field(<<"ticket">>, TRUE, <<"a">>),
     Field(<<"ticket">>, TRUE, <<"b">>),
     Field(<<"ticket">>, TRUE, <<>>),
     Field(<<"ticket">>, FALSE, <<>>),
     Field(<<"ticket">>, TRUE, <<"a", "=", "b">>),
     Field(<<"x">>, TRUE, <<"a">>),
     Field(<<"ticket", "x">>, TRUE, <<"a">>),
     Field(<<"Ticket">>, TRUE, <<"a">>),
     Field(<<>>, FALSE, <<>>)}

RenderField(f) == f.name \o (IF f.eq THEN <<"=">> ELSE <<>>) \o f.value

RECURSIVE RenderQuery(_)
RenderQuery(fields) ==
    IF fields = <<>> THEN <<>>
    ELSE IF Len(fields) = 1 THEN RenderField(fields[1])
    ELSE RenderField(fields[1]) \o <<"&">> \o RenderQuery(Tail(fields))

\* The URI of a sample: the fields as the query string, alone, followed
\* by a fragment, or (form "fragment") placed after a "#", where they are
\* no query string at all.
RenderUri(form, fields) ==
    CASE form = "query"     -> <<"/", "cdp", "?">> \o RenderQuery(fields)
      [] form = "queryfrag" -> <<"/", "cdp", "?">> \o RenderQuery(fields)
                                   \o <<"#", "ticket", "=", "f">>
      [] form = "fragment"  -> <<"/", "cdp", "#", "?">> \o RenderQuery(fields)
      [] OTHER              -> <<"/", "cdp">>

FieldSeqs == UNION {[1..n -> FieldChoices] : n \in 0..MaxFields}

Samples ==
    {[fields |-> (IF form \in {"query", "queryfrag"} THEN fs ELSE <<>>),
      uri |-> RenderUri(form, fs)] :
        form \in {"query", "queryfrag", "fragment", "path"}, fs \in FieldSeqs}

InitParse ==
    /\ jwt_public_key = None
    /\ ticket_ttl = default_ticket_ttl
    /\ ticket_cache = <<>>
    /\ jwt_cache = <<>>
    /\ now = 0
    /\ issued = <<>>
    /\ last = NoRequest
    /\ sample \in Samples
    /\ RelayIdle

\* parse_ticket_from_uri applied to the sampled URI.
ParseTicket ==
    /\ last.op = "none"
    /\ last' = [NoRequest EXCEPT !.op = "parse_ticket",
                                 !.original_uri = sample.uri,
                                 !.ticket = parse_ticket_from_uri(sample.uri)]
    /\ UNCHANGED <<jwt_public_key, ticket_ttl, ticket_cache, jwt_cache, now,
                   issued, sample>>
    /\ UNCHANGED relayVars

NextParse == ParseTicket

SpecParse == InitParse /\ [][NextParse]_vars

\* ------------------------------------------------------------ relay actions
\* One pass of the loop of _forward_cdp_to_client: what is sent to the
\* client, send_text for a str and send_bytes otherwise.  The flag only
\* decides whether the frame is logged.
forward_cdp_message(message, enabled) ==
    [kind |-> message.type, payload |-> message.payload]

\* ---- handle_websocket_request

\* The proxy is not configured: the connection is closed and the handler
\* returns; websocket.accept() is not reached.
CloseUnconfigured ==
    /\ session.pc = "start"
    /\ ~is_configured(cdp_config)
    /\ LET r == websocket_close(session, to_client, InternalError,
                                "CDP proxy not configured")
       IN  /\ session' = [r.session EXCEPT !.pc = "closed",
                                           !.failed = r.raised]
           /\ to_client' = r.to_client
    /\ UNCHANGED <<authVars, http, twin, cdp_config, logging_state, inbound, to_upstream,
                   from_upstream>>

\* Mutant of Accept: the forwarding tasks are started at accept, before
\* the upstream connection exists.
Accept_start_tasks ==
    /\ session.pc = "start"
    /\ is_configured(cdp_config)
    /\ session' = [session EXCEPT !.pc = "relaying", !.accepted = TRUE,
                                  !.application_state = "CONNECTED",
                                  !.client_state = "CONNECTED",
                                  !.client_to_cdp_task = "receive",
                                  !.cdp_to_client_task = "receive"]
    /\ logging_state' \in BOOLEAN
    /\ UNCHANGED <<authVars, http, twin, cdp_config, inbound, to_upstream,
                   from_upstream, to_client>>

\* websocket.accept(); the logging flag starts as the root logger's
\* isEnabledFor(DEBUG).
Accept ==
    /\ session.pc = "start"
    /\ is_configured(cdp_config)
    /\ session' = [session EXCEPT !.pc = "connect", !.accepted = TRUE,
                                  !.application_state = "CONNECTED",
                                  !.client_state = "CONNECTED"]
    /\ logging_state' \in BOOLEAN
    /\ UNCHANGED <<authVars, http, twin, cdp_config, inbound, to_upstream, from_upstream,
                   to_client>>

\* websockets.connect succeeds: both forwarding tasks are created.
ConnectUpstream ==
    /\ session.pc = "connect"
    /\ session' = [session EXCEPT !.pc = "relaying", !.upstream = "open",
                                  !.connects = 1,
                                  !.client_to_cdp_task = "receive",
                                  !.cdp_to_client_task = "receive"]
    /\ UNCHANGED <<authVars, http, twin, cdp_config, logging_state, inbound, to_upstream,
                   from_upstream, to_client>>

\* Mutant of ConnectFails: the failure closes the inbound connection as
\* a normal closure.
ConnectFails_normal_close(exception) ==
    /\ session.pc = "connect"
    /\ LET r == websocket_close(
                    [session EXCEPT !.connects = 1], to_client,
                    NormalClosure, "")
       IN  /\ session' = [r.session EXCEPT !.pc = "finally",
                                           !.failed = r.raised]
           /\ to_client' = r.to_client
    /\ UNCHANGED <<authVars, http, twin, cdp_config, logging_state, inbound,
                   to_upstream, from_upstream>>

\* websockets.connect raises: InvalidURI, or any other exception (the
\* connection is refused, the handshake fails, the attempt times out).
ConnectFails(exception) ==
    /\ session.pc = "connect"
    /\ LET r == websocket_close(
                    [session EXCEPT !.connects = 1], to_client,
                    InternalError,
                    IF exception = "InvalidURI"
                    THEN "Invalid upstream WebSocket URI"
                    ELSE "Internal server error")
       IN  /\ session' = [r.session EXCEPT !.pc = "finally",
                                           !.failed = r.raised]
           /\ to_client' = r.to_client
    /\ UNCHANGED <<authVars, http, twin, cdp_config, logging_state, inbound, to_upstream,
                   from_upstream>>

\* Mutant of CancelPending: the handler waits for both tasks
\* (ALL_COMPLETED) and cancels none.
CancelPending_wait_all ==
    /\ session.pc = "relaying"
    /\ session.client_to_cdp_task = "done"
    /\ session.cdp_to_client_task = "done"
    /\ session' = [session EXCEPT !.pc = "exit"]
    /\ UNCHANGED <<authVars, http, twin, cdp_config, logging_state, inbound, to_upstream,
                   from_upstream, to_client>>

\* asyncio.wait(FIRST_COMPLETED) returns; the pending task is cancelled
\* and gathered: it takes the CancelledError at its await and returns.
CancelPending ==
    /\ session.pc = "relaying"
    /\ \/ session.client_to_cdp_task = "done"
       \/ session.cdp_to_client_task = "done"
    /\ session' =
           [session EXCEPT
               !.pc = "exit",
               !.client_to_cdp_task =
                   IF @ = "done" THEN "done" ELSE "cancelled",
               !.cdp_to_client_task =
                   IF @ = "done" THEN "done" ELSE "cancelled"]
    /\ UNCHANGED <<authVars, http, twin, cdp_config, logging_state, inbound, to_upstream,
                   from_upstream, to_client>>

\* The async with block is left: cdp_ws is closed.
ExitUpstream ==
    /\ session.pc = "exit"
    /\ session' = [session EXCEPT !.pc = "finally", !.upstream = "closed",
                                  !.upstream_closes = @ + 1]
    /\ UNCHANGED <<authVars, http, twin, cdp_config, logging_state, inbound, to_upstream,
                   from_upstream, to_client>>

\* finally: websocket.close() unless the client is known to be gone; the
\* RuntimeError of a second close is swallowed.
Finally ==
    /\ session.pc = "finally"
    /\ LET r == websocket_close(session, to_client, NormalClosure, "")
       IN  IF session.client_state # "DISCONNECTED"
           THEN /\ session' = [r.session EXCEPT !.pc = "closed"]
                /\ to_client' = r.to_client
           ELSE /\ session' = [session EXCEPT !.pc = "closed"]
                /\ to_client' = to_client
    /\ UNCHANGED <<authVars, http, twin, cdp_config, logging_state, inbound, to_upstream,
                   from_upstream>>

\* ---- _forward_client_to_cdp

\* client_ws.receive() returns a frame.
ClientReceive(frame) ==
    /\ session.pc = "relaying"
    /\ session.client_to_cdp_task = "receive"
    /\ session.client_close = NoClose
    /\ Len(inbound) < MaxInbound
    /\ inbound' = Append(inbound, frame)
    /\ session' = [session EXCEPT !.client_to_cdp_task = "handle",
                                  !.data = frame]
    /\ UNCHANGED <<authVars, http, twin, cdp_config, logging_state, to_upstream, from_upstream,
                   to_client>>

\* The rest of the loop body: the frame is dropped, answered or sent
\* upstream.  A send on a connection the peer has closed raises, which
\* ends the task.
ClientHandle ==
    /\ session.pc = "relaying"
    /\ session.client_to_cdp_task = "handle"
    /\ LET r == forward_client_frame(session.data, logging_state)
           failed ==
               \/ r.reply # NoReply /\ session.client_close # NoClose
               \/ r.forward /\ session.upstream_close # NoClose
       IN  /\ logging_state' = r.enabled
           /\ to_client' = IF r.reply # NoReply /\ ~failed
                           THEN Append(to_client, r.reply)
                           ELSE to_client
           /\ to_upstream' = IF r.forward /\ ~failed
                             THEN Append(to_upstream, session.data)
                             ELSE to_upstream
           /\ session' = [session EXCEPT
                             !.client_to_cdp_task =
                                 IF failed THEN "done" ELSE "receive",
                             !.data = NoFrame]
    /\ UNCHANGED <<authVars, http, twin, cdp_config, inbound, from_upstream>>

\* cdp_ws.send raises an exception that is not ConnectionClosed (a
\* TypeError, an OSError): "except Exception" logs it and the task
\* returns.
ClientTaskRaises ==
    /\ session.pc = "relaying"
    /\ session.client_to_cdp_task = "handle"
    /\ forward_client_frame(session.data, logging_state).forward
    /\ session' = [session EXCEPT !.client_to_cdp_task = "done",
                                  !.data = NoFrame,
                                  !.raised = "Exception"]
    /\ UNCHANGED <<authVars, http, twin, cdp_config, logging_state, inbound,
                   to_upstream, from_upstream, to_client>>

\* client_ws.receive() returns websocket.disconnect: the loop breaks.
ClientDisconnected ==
    /\ session.pc = "relaying"
    /\ session.client_to_cdp_task = "receive"
    /\ session.client_close # NoClose
    /\ session' = [session EXCEPT !.client_to_cdp_task = "done",
                                  !.client_state = "DISCONNECTED"]
    /\ UNCHANGED <<authVars, http, twin, cdp_config, logging_state, inbound, to_upstream,
                   from_upstream, to_client>>

\* ---- _forward_cdp_to_client

\* async for message in cdp_ws: the next frame of upstream.
UpstreamReceive(message) ==
    /\ session.pc = "relaying"
    /\ session.cdp_to_client_task = "receive"
    /\ session.upstream_close = NoClose
    /\ Len(from_upstream) < MaxUpstream
    /\ from_upstream' = Append(from_upstream, message)
    /\ session' = [session EXCEPT !.cdp_to_client_task = "send",
                                  !.message = message]
    /\ UNCHANGED <<authVars, http, twin, cdp_config, logging_state, inbound, to_upstream,
                   to_client>>

\* send_text for a str, send_bytes otherwise; a send to a client that has
\* gone raises WebSocketDisconnect, which ends the task.
UpstreamDeliver ==
    /\ session.pc = "relaying"
    /\ session.cdp_to_client_task = "send"
    /\ IF session.client_close # NoClose
       THEN /\ session' = [session EXCEPT !.cdp_to_client_task = "done",
                                          !.message = NoMessage]
            /\ to_client' = to_client
       ELSE /\ session' = [session EXCEPT !.cdp_to_client_task = "receive",
                                          !.message = NoMessage]
            /\ to_client' =
                   Append(to_client,
                          forward_cdp_message(session.message,
                                              logging_state))
    /\ UNCHANGED <<authVars, http, twin, cdp_config, logging_state, inbound, to_upstream,
                   from_upstream>>

\* send_text or send_bytes raises an exception that is not
\* WebSocketDisconnect (a RuntimeError): "except Exception" logs it and
\* the task returns.
UpstreamTaskRaises ==
    /\ session.pc = "relaying"
    /\ session.cdp_to_client_task = "send"
    /\ session' = [session EXCEPT !.cdp_to_client_task = "done",
                                  !.message = NoMessage,
                                  !.raised = "Exception"]
    /\ UNCHANGED <<authVars, http, twin, cdp_config, logging_state, inbound,
                   to_upstream, from_upstream, to_client>>

\* The iteration over cdp_ws ends: upstream has closed the connection.
UpstreamClosed ==
    /\ session.pc = "relaying"
    /\ session.cdp_to_client_task = "receive"
    /\ session.upstream_close # NoClose
    /\ session' = [session EXCEPT !.cdp_to_client_task = "done"]
    /\ UNCHANGED <<authVars, http, twin, cdp_config, logging_state, inbound, to_upstream,
                   from_upstream, to_client>>

\* ---- the peers

\* The client closes the inbound connection.
ClientCloses(close) ==
    /\ session.pc = "relaying"
    /\ session.client_close = NoClose
    /\ session' = [session EXCEPT !.client_close = close]
    /\ UNCHANGED <<authVars, http, twin, cdp_config, logging_state, inbound, to_upstream,
                   from_upstream, to_client>>

\* Upstream closes its connection.
UpstreamCloses(close) ==
    /\ session.pc = "relaying"
    /\ session.upstream_close = NoClose
    /\ session' = [session EXCEPT !.upstream_close = close]
    /\ UNCHANGED <<authVars, http, twin, cdp_config, logging_state, inbound, to_upstream,
                   from_upstream, to_client>>

\* ---- the session specification

InitRelay ==
    /\ AuthIdle
    /\ cdp_config \in {validate_config(env) : env \in CdpEnv}
    /\ session = NoSession
    /\ logging_state = FALSE
    /\ inbound = <<>>
    /\ to_upstream = <<>>
    /\ from_upstream = <<>>
    /\ to_client = <<>>
    /\ twin = NoTwin
    /\ http = NoHttp

HandlerStep ==
    \/ CloseUnconfigured
    \/ Accept
    \/ ConnectUpstream
    \/ \E exception \in {"InvalidURI", "OSError"} : ConnectFails(exception)
    \/ CancelPending
    \/ ExitUpstream
    \/ Finally

ClientTaskStep ==
    \/ \E frame \in RelayFrames : ClientReceive(frame)
    \/ ClientHandle
    \/ ClientTaskRaises
    \/ ClientDisconnected

UpstreamTaskStep ==
    \/ \E message \in UpstreamFrames : UpstreamReceive(message)
    \/ UpstreamDeliver
    \/ UpstreamTaskRaises
    \/ UpstreamClosed

PeerStep ==
    \/ ClientCloses([code |-> 1001, reason |-> "going away"])
    \/ \E close \in CloseFrames : UpstreamCloses(close)

NextRelay ==
    \/ HandlerStep
    \/ ClientTaskStep
    \/ UpstreamTaskStep
    \/ PeerStep

SpecRelay == InitRelay /\ [][NextRelay]_vars

\* The handler is never starved: once asyncio.wait can return, and at
\* each later await of its teardown, the event loop resumes it.
SpecRelayFair ==
    /\ SpecRelay
    /\ WF_vars(CancelPending)
    /\ WF_vars(ExitUpstream)
    /\ WF_vars(Finally)

\* ---- the control channel on its own: one configured session, every
\* kind of inbound frame, both peers staying connected.

InitDispatch ==
    /\ InitRelay
    /\ is_configured(cdp_config)

NextDispatch ==
    \/ Accept
    \/ ConnectUpstream
    \/ \E frame \in ControlFrames : ClientReceive(frame)
    \/ ClientHandle

SpecDispatch == InitDispatch /\ [][NextDispatch]_vars

\* ---- two runs of the relay side by side: the same frames arrive in
\* both, the runs differ in the logging flag they start with and in the
\* enabled values of the setLoggingEnabled requests.

\* The inbound frames of the two runs.
ToggleFrames ==
    {SetLogging(JParams(JBool(TRUE))),
     SetLogging(JParams(JBool(FALSE))),
     SetLogging(JParams(Missing)),
     SetLogging(JNull),
     PageEnable,
     EmptyText,
     BytesFrame(<<"b1">>)}

\* The frames the second run may receive where the first receives frame:
\* the same frame, or the same request with another enabled value.
Variants(frame) ==
    {frame}
    \cup (IF frame \in {SetLogging(JParams(JBool(TRUE))),
                        SetLogging(JParams(JBool(FALSE)))}
          THEN {SetLogging(JParams(JBool(TRUE))),
                SetLogging(JParams(JBool(FALSE)))}
          ELSE {})

InitToggle ==
    /\ AuthIdle
    /\ cdp_config = validate_config([origin |-> <<"http", "://", "cdp:9222">>,
                                     netloc |-> None])
    /\ session = NoSession
    /\ logging_state \in BOOLEAN
    /\ inbound = <<>>
    /\ to_upstream = <<>>
    /\ from_upstream = <<>>
    /\ to_client = <<>>
    /\ twin \in {[NoTwin EXCEPT !.logging_state = b] : b \in BOOLEAN}
    /\ http = NoHttp

\* The loop body of _forward_client_to_cdp runs in both runs, on frame
\* in the first and on its variant in the second.
ReplayClientFrame(frame, variant) ==
    /\ Len(inbound) < MaxInbound
    /\ inbound' = Append(inbound, frame)
    /\ LET r == forward_client_frame(frame, logging_state)
           q == forward_client_frame(variant, twin.logging_state)
       IN  /\ logging_state' = r.enabled
           /\ to_client' = IF r.reply # NoReply
                           THEN Append(to_client, r.reply)
                           ELSE to_client
           /\ to_upstream' = IF r.forward
                             THEN Append(to_upstream, frame)
                             ELSE to_upstream
           /\ twin' = [logging_state |-> q.enabled,
                       to_client |-> IF q.reply # NoReply
                                     THEN Append(twin.to_client, q.reply)
                                     ELSE twin.to_client,
                       to_upstream |-> IF q.forward
                                       THEN Append(twin.to_upstream, variant)
                                       ELSE twin.to_upstream]
    /\ UNCHANGED <<authVars, http, cdp_config, session, from_upstream>>

\* The loop body of _forward_cdp_to_client runs in both runs on message.
ReplayUpstreamMessage(message) ==
    /\ Len(from_upstream) < MaxUpstream
    /\ from_upstream' = Append(from_upstream, message)
    /\ to_client' = Append(to_client,
                           forward_cdp_message(message, logging_state))
    /\ twin' = [twin EXCEPT
                   !.to_client =
                       Append(@, forward_cdp_message(message,
                                                     twin.logging_state))]
    /\ UNCHANGED <<authVars, http, cdp_config, session, logging_state,
                   inbound, to_upstream>>

NextToggle ==
    \/ \E frame \in ToggleFrames :
           \E variant \in Variants(frame) : ReplayClientFrame(frame, variant)
    \/ \E message \in UpstreamFrames : ReplayUpstreamMessage(message)

SpecToggle == InitToggle /\ [][NextToggle]_vars

\* ---- a session next to another session of the same service: each
\* call of handle_websocket_request makes its own LoggingState.

\* The inbound frames of the two sessions.
SessionFrames ==
    ToggleFrames
    \cup {Message(JStr(custom_command_domain \o <<".", "getStatus">>),
                  JNum(8), Missing)}

\* Mutant of OtherSessionHandle: the flag is one object of the service,
\* written by every session.
OtherSessionHandle_shared_flag(frame) ==
    /\ session.accepted
    /\ logging_state' = forward_client_frame(frame, logging_state).enabled
    /\ twin' = [twin EXCEPT !.logging_state = logging_state']
    /\ UNCHANGED <<authVars, http, cdp_config, session, inbound, to_upstream,
                   from_upstream, to_client>>

\* The loop body of _forward_client_to_cdp in another session: it works
\* on the LoggingState of that session; its connections are not part of
\* the model.
OtherSessionHandle(frame) ==
    /\ session.accepted
    /\ twin' = [twin EXCEPT
                   !.logging_state =
                       forward_client_frame(frame, twin.logging_state).enabled]
    /\ UNCHANGED <<authVars, http, cdp_config, session, logging_state,
                   inbound, to_upstream, from_upstream, to_client>>

InitSessions ==
    /\ AuthIdle
    /\ cdp_config = validate_config([origin |-> <<"http", "://", "cdp:9222">>,
                                     netloc |-> None])
    /\ session = NoSession
    /\ logging_state = FALSE
    /\ inbound = <<>>
    /\ to_upstream = <<>>
    /\ from_upstream = <<>>
    /\ to_client = <<>>
    /\ twin = NoTwin
    /\ http = NoHttp

NextSessions ==
    \/ Accept
    \/ ConnectUpstream
    \/ \E frame \in SessionFrames : ClientReceive(frame)
    \/ ClientHandle
    \/ \E message \in UpstreamFrames : UpstreamReceive(message)
    \/ UpstreamDeliver
    \/ \E frame \in SessionFrames : OtherSessionHandle(frame)

SpecSessions == InitSessions /\ [][NextSessions]_vars

\* ---- discovery proxy actions

\* handle_http_request up to the await of http_client.get: the 503 of an
\* unconfigured proxy, or the client and the upstream request.  A client
\* that was closed raises RuntimeError and sends nothing.
HttpRequest(request) ==
    /\ http.lifespan # "down"
    /\ http.requests < MaxRequests
    /\ IF ~is_configured(cdp_config)
       THEN http' = [http EXCEPT
                        !.requests = @ + 1,
                        !.exchange =
                            [request |-> request, outbound |-> NoOutbound,
                             outcome |-> UpstreamRaises("none"),
                             response |->
                                 HTTPException(
                                     503,
                                     "CDP proxy is not properly configured"),
                             sends |-> 0]]
       ELSE LET h == get_http_client(http)
                outbound == IF IsClosed(h, h.http_client) THEN NoOutbound
                            ELSE outbound_request(cdp_config, request)
            IN  http' = [h EXCEPT
                            !.requests = @ + 1,
                            !.inflight =
                                Append(@, [request |-> request,
                                           client |-> h.http_client,
                                           outbound |-> outbound,
                                           sends |-> IF outbound = NoOutbound
                                                     THEN 0 ELSE 1])]
    /\ UNCHANGED <<authVars, cdp_config, sessionVars>>

\* Mutant of HttpResponse: a request that timed out is sent once more.
HttpResponse_retry(i, outcome) ==
    /\ i \in 1..Len(http.inflight)
    /\ IsClosed(http, http.inflight[i].client) => outcome.kind = "raise"
    /\ http.inflight[i].outbound = NoOutbound
           => outcome = UpstreamRaises("RuntimeError")
    /\ http' = IF "TimeoutException" \in ExceptionClasses(outcome.raised)
                  /\ http.inflight[i].sends < 2
               THEN [http EXCEPT !.inflight[i].sends = @ + 1]
               ELSE [http EXCEPT
                        !.inflight = SubSeq(@, 1, i - 1)
                                         \o SubSeq(@, i + 1, Len(@)),
                        !.exchange =
                            [request |-> http.inflight[i].request,
                             outbound |-> http.inflight[i].outbound,
                             outcome |-> outcome,
                             response |-> forward_response(
                                              http.inflight[i].request,
                                              outcome),
                             sends |-> http.inflight[i].sends]]
    /\ UNCHANGED <<authVars, cdp_config, sessionVars>>

\* The await returns or raises, and handle_http_request finishes.  A
\* request whose client was closed under it ends in an exception.
HttpResponse(i, outcome) ==
    /\ i \in 1..Len(http.inflight)
    /\ IsClosed(http, http.inflight[i].client) => outcome.kind = "raise"
    /\ http.inflight[i].outbound = NoOutbound
           => outcome = UpstreamRaises("RuntimeError")
    /\ http' = [http EXCEPT
                   !.inflight = SubSeq(@, 1, i - 1)
                                    \o SubSeq(@, i + 1, Len(@)),
                   !.exchange =
                       [request |-> http.inflight[i].request,
                        outbound |-> http.inflight[i].outbound,
                        outcome |-> outcome,
                        response |-> forward_response(
                                         http.inflight[i].request, outcome),
                        sends |-> http.inflight[i].sends]]
    /\ UNCHANGED <<authVars, cdp_config, sessionVars>>

\* shutdown(): CDPProxyService.close up to the end of aclose().
ShutdownBegin ==
    /\ http.lifespan = "running"
    /\ http' = IF http.http_client # 0
               THEN [http EXCEPT !.lifespan = "closing",
                                 !.aclosed = Append(@, http.http_client)]
               ELSE [http EXCEPT !.lifespan = "down"]
    /\ UNCHANGED <<authVars, cdp_config, sessionVars>>

\* close() after the await: http_client = None.
ShutdownEnd ==
    /\ http.lifespan = "closing"
    /\ http' = [http EXCEPT !.lifespan = "down", !.http_client = 0]
    /\ UNCHANGED <<authVars, cdp_config, sessionVars>>

SessionIdle ==
    /\ session = NoSession
    /\ logging_state = FALSE
    /\ inbound = <<>>
    /\ to_upstream = <<>>
    /\ from_upstream = <<>>
    /\ to_client = <<>>
    /\ twin = NoTwin

\* ---- the service's HTTP side: concurrent requests and shutdown

InitHttp ==
    /\ AuthIdle
    /\ SessionIdle
    /\ cdp_config \in {validate_config(env) : env \in CdpEnv}
    /\ http = NoHttp

NextHttp ==
    \/ \E request \in HttpRequests : HttpRequest(request)
    \/ \E i \in 1..MaxRequests, outcome \in HttpOutcomes :
           HttpResponse(i, outcome)
    \/ ShutdownBegin
    \/ ShutdownEnd

SpecHttp == InitHttp /\ [][NextHttp]_vars

\* ---- one forward on sampled inputs

InitForward ==
    /\ jwt_public_key = None
    /\ ticket_ttl = default_ticket_ttl
    /\ ticket_cache = <<>>
    /\ jwt_cache = <<>>
    /\ now = 0
    /\ issued = <<>>
    /\ last = NoRequest
    /\ sample \in ForwardSamples
    /\ SessionIdle
    /\ cdp_config \in {validate_config(env) : env \in CdpEnv}
    /\ is_configured(cdp_config)
    /\ http = NoHttp

NextForward ==
    \/ HttpRequest(sample.request)
    \/ \E i \in 1..MaxRequests : HttpResponse(i, sample.outcome)

SpecForward == InitForward /\ [][NextForward]_vars

\* ---- discovery requests next to one session, without frames: what
\* is sent and opened upstream.

InitUpstream ==
    /\ AuthIdle
    /\ SessionIdle
    /\ cdp_config \in {validate_config(env) : env \in CdpEnv}
    /\ http = NoHttp

NextUpstream ==
    \/ \E request \in HttpRequests : HttpRequest(request)
    \/ \E i \in 1..MaxRequests, outcome \in HttpOutcomes :
           HttpResponse(i, outcome)
    \/ CloseUnconfigured
    \/ Accept
    \/ ConnectUpstream
    \/ \E exception \in {"InvalidURI", "OSError"} : ConnectFails(exception)
    \/ \E close \in CloseFrames : UpstreamCloses(close)
    \/ UpstreamClosed
    \/ ClientCloses([code |-> 1001, reason |-> "going away"])
    \/ ClientDisconnected
    \/ CancelPending
    \/ ExitUpstream
    \/ Finally

SpecUpstream == InitUpstream /\ [][NextUpstream]_vars

\* ---- AuthConfig on sampled TICKET_TTL_SECONDS values

TtlChars == {" ", "-", "+", "0", "1", "3", "x"}

\* The values of the variable; the empty one stands for the unset
\* variable as well.
TtlValues == UNION {[1..n -> TtlChars] : n \in 0..MaxTtlLen}

InitTtl ==
    /\ jwt_public_key = None
    /\ ticket_ttl = default_ticket_ttl
    /\ ticket_cache = <<>>
    /\ jwt_cache = <<>>
    /\ now = 0
    /\ issued = <<>>
    /\ last = NoRequest
    /\ sample \in {[raw |-> raw, loaded |-> FALSE] : raw \in TtlValues}
    /\ RelayIdle

\* AuthConfig.__init__: ticket_ttl = _load_ticket_ttl("TICKET_TTL_SECONDS").
LoadTicketTtl ==
    /\ ~sample.loaded
    /\ ticket_ttl' = load_ticket_ttl(sample.raw)
    /\ sample' = [sample EXCEPT !.loaded = TRUE]
    /\ UNCHANGED <<jwt_public_key, ticket_cache, jwt_cache, now, issued, last>>
    /\ UNCHANGED relayVars

NextTtl == LoadTicketTtl

SpecTtl == InitTtl /\ [][NextTtl]_vars

\* ---- a response body passing through the rewrite twice

\* The items of the bodies: those of the forward, and a string holding
\* an escaped quote between two session URLs.
RewriteItems ==
    BodyItems
    \cup {<<Quote, "ws://", "h", "/", "devtools", "/", "a", "\\", Quote,
            "ws://", "k", "/", "devtools", "/", "b", Quote>>}

\* X-Forwarded-Prefix values: none, /cdp, /devtools/px.
RewritePrefixes == {<<>>, <<"/", "cdp">>, <<"/", "devtools", "/", "px">>}

RewriteSamples ==
    {[items |-> items, proxy_host |-> <<"pub.example">>, prefix |-> prefix,
      ws_protocol |-> ws_protocol, bodies |-> <<RenderBody(items)>>] :
        items \in UNION {[1..n -> RewriteItems] : n \in 0..MaxItems},
        prefix \in RewritePrefixes, ws_protocol \in {"ws://", "wss://"}}

InitRewrite ==
    /\ jwt_public_key = None
    /\ ticket_ttl = default_ticket_ttl
    /\ ticket_cache = <<>>
    /\ jwt_cache = <<>>
    /\ now = 0
    /\ issued = <<>>
    /\ last = NoRequest
    /\ sample \in RewriteSamples
    /\ RelayIdle

\* _rewrite_websocket_urls applied to the body the last pass returned.
RewritePass ==
    /\ Len(sample.bodies) < 3
    /\ sample' = [sample EXCEPT
                     !.bodies =
                         Append(@, rewrite_websocket_urls(
                                       @[Len(@)], sample.proxy_host,
                                       sample.prefix, sample.ws_protocol))]
    /\ UNCHANGED <<jwt_public_key, ticket_ttl, ticket_cache, jwt_cache, now,
                   issued, last>>
    /\ UNCHANGED relayVars

NextRewrite == RewritePass

SpecRewrite == InitRewrite /\ [][NextRewrite]_vars

\* ------------------------------------------------------------ claims

\* What a request carries, read off the request text itself.

\* The fields of the query string whose name is "ticket".
QueryFields(uri) == Split(UrlQuery(uri), "&")

IsTicketField(f) == Len(f) >= 2 /\ f[1] = "ticket" /\ f[2] = "="

CarriesTicketParam(uri) ==
    \E i \in 1..Len(QueryFields(uri)) : IsTicketField(QueryFields(uri)[i])

\* The value of the last "ticket=" field of the query string.
LastTicketParam(uri) ==
    LET fs == QueryFields(uri)
        i  == CHOOSE k \in 1..Len(fs) :
                  IsTicketField(fs[k])
                  /\ \A j \in (k + 1)..Len(fs) : ~IsTicketField(fs[j])
    IN  SubSeq(fs[i], 3, Len(fs[i]))

\* The blank-separated words of an Authorization header.
HeaderWords(h) == SelectSeq(Split(h, " "), LAMBDA w : w # <<>>)

WellFormedBearer(h) ==
    /\ Len(HeaderWords(h)) = 2
    /\ HeaderWords(h)[1] \in {<<"Bearer">>, <<"BEARER">>, <<"bearer">>}

PresentedToken(h) == HeaderWords(h)[2]

IssuedTickets == {Uuid(n) : n \in 1..Len(issued)}

\* C1: every ticket returned by issue(), under every ticket TTL the
\* configuration accepts, checks true while fewer than TTL seconds have
\* passed since it was issued and false once more than TTL seconds have
\* passed, whatever other tickets were issued in between.
C1_TicketValidExactlyForTtl ==
    \A n \in 1..Len(issued) :
        /\ now - issued[n] < ticket_ttl
              => validate_ticket(ticket_cache, Uuid(n), now)
        /\ now - issued[n] > ticket_ttl
              => ~validate_ticket(ticket_cache, Uuid(n), now)

\* C2: tickets are not single-use: an authorize never changes the ticket
\* store, and a ticket-based authorize of a ticket that is in the store
\* and unexpired answers 200 and leaves that ticket valid for the next
\* check.
C2_TicketsNotSingleUse ==
    [][last'.op = "authenticate" =>
         /\ ticket_cache' = ticket_cache
         /\ LET t == parse_ticket_from_uri(last'.original_uri)
            IN  (t # None /\ validate_ticket(ticket_cache, t, now)) =>
                    /\ last'.status = 200
                    /\ validate_ticket(ticket_cache', t, now')]_vars

\* C2 witness: a ticket-based authorize has just accepted a ticket, and the
\* same ticket is still valid.
C2_Witness ==
    /\ last.op = "authenticate"
    /\ last.detail = "Ticket validated."
    /\ validate_ticket(ticket_cache, parse_ticket_from_uri(last.original_uri), now)

\* C3 as stated: whenever X-Original-URI carries a ticket query parameter,
\* the request is accepted iff the ticket store's check is true for that
\* ticket and is otherwise answered 401, and the JWT verifier is never
\* consulted.
C3_TicketParamDecides ==
    (last.op = "authenticate" /\ CarriesTicketParam(last.original_uri)) =>
        /\ ~last.jwt_called
        /\ last.status \in {200, 401}
        /\ last.status = 200 <=>
               validate_ticket(ticket_cache, LastTicketParam(last.original_uri), now)

\* C3 amended: whenever X-Original-URI carries a ticket query parameter
\* with a non-empty value (parse_ticket_from_uri returns a ticket), the
\* request is accepted iff the ticket store's check is true for that
\* ticket and is otherwise answered 401 "Invalid or expired ticket."; the
\* JWT verifier is never consulted, whatever the Authorization header and
\* the public key are.
C3_TicketPrecedence ==
    LET t == parse_ticket_from_uri(last.original_uri)
    IN  (last.op = "authenticate" /\ t # None) =>
            /\ ~last.jwt_called
            /\ last.status \in {200, 401}
            /\ last.status = 200 <=> validate_ticket(ticket_cache, t, now)
            /\ last.status = 401 => last.detail = "Invalid or expired ticket."

\* C3 witness: an invalid ticket came with a Bearer token the verifier
\* would accept, and the request was rejected.
C3_Witness ==
    /\ last.op = "authenticate"
    /\ parse_ticket_from_uri(last.original_uri) = <<"zz">>
    /\ last.auth_header = <<"Bearer", " ", "jInt">>
    /\ jwt_public_key = <<"K1">>
    /\ decode(<<"jInt">>, jwt_public_key, jwt_algorithms, now) = "payload"
    /\ last.status = 401

\* C4: with no ticket present, an absent Authorization header, a header
\* whose first word is not "bearer" in any letter case, and a header with
\* a scheme but no token are each answered 401 without the JWT verifier
\* being invoked, whatever the key and the verified-token cache are.
C4_MalformedHeaderRejected ==
    LET h == last.auth_header
    IN  (/\ last.op = "authenticate"
         /\ ~CarriesTicketParam(last.original_uri)
         /\ \/ h = None
            \/ Len(HeaderWords(h)) < 2
            \/ Lower(HeaderWords(h)[1]) # <<"bearer">>) =>
            /\ last.status = 401
            /\ ~last.jwt_called
            /\ ~last.decoded

\* C4 witness: a Basic header carrying a token that sits in the
\* verified-token cache, with a key configured, was rejected.
C4_Witness ==
    /\ last.op = "authenticate"
    /\ last.auth_header = <<"Basic", " ", "jNoExp">>
    /\ jwt_public_key # None
    /\ CacheGet(jwt_cache, <<"jNoExp">>, now)
    /\ last.status = 401

\* C5: with no public key configured, a request without a ticket and with
\* a well-formed Bearer header is answered 503 for every token, cached or
\* not; none is accepted and none is answered 401.
C5_NoKeyUnavailable ==
    (/\ last.op = "authenticate"
     /\ ~CarriesTicketParam(last.original_uri)
     /\ WellFormedBearer(last.auth_header)
     /\ jwt_public_key = None) =>
        /\ last.status = 503
        /\ ~last.decoded

\* C5 witness: the presented token is in the verified-token cache and
\* unexpired, no key is configured, and the answer was 503.
C5_Witness ==
    /\ last.op = "authenticate"
    /\ WellFormedBearer(last.auth_header)
    /\ jwt_public_key = None
    /\ CacheGet(jwt_cache, PresentedToken(last.auth_header), now)
    /\ last.status = 503

\* C6: a token accepted by a fresh verification is in the verified-token
\* cache afterwards, and while its cache entry is unexpired every verify
\* of the same token string under any configured (non-empty) key succeeds
\* without the signature being verified again.
C6_CachedTokenReplays ==
    [][(/\ last'.op = "authenticate"
        /\ ~CarriesTicketParam(last'.original_uri)
        /\ WellFormedBearer(last'.auth_header)) =>
           LET token == PresentedToken(last'.auth_header)
           IN  /\ last'.detail = "Access granted after validation."
                     => CacheGet(jwt_cache', token, now')
               /\ (jwt_public_key # None /\ CacheGet(jwt_cache, token, now))
                     => /\ last'.status = 200
                        /\ ~last'.decoded
                        /\ jwt_cache' = jwt_cache]_vars

\* C6 witness: a token signed with K1 was accepted from the cache after
\* the key had been replaced by K2.
C6_Witness ==
    /\ last.op = "authenticate"
    /\ last.detail = "Access granted from cache."
    /\ jwt_public_key = <<"K2">>
    /\ Claims(PresentedToken(last.auth_header)).signer = <<"K1">>

\* C7 as stated: a token that is not in the cache and whose expiry claim
\* is in the past is rejected with 401 "Token has expired".
C7_PastExpiryIsExpired ==
    (/\ last.op = "authenticate"
     /\ last.decoded
     /\ Claims(PresentedToken(last.auth_header)).exp.kind # "none"
     /\ Claims(PresentedToken(last.auth_header)).exp.at < now) =>
        /\ last.status = 401
        /\ last.detail = "Token has expired"

\* C7 amended: for a token not in the cache, verify accepts exactly the
\* tokens that parse, carry an allowed algorithm, verify under the
\* configured key and are unexpired; it rejects with 401 "Token has
\* expired" exactly those that pass the first three checks and whose
\* expiry claim is not later than the clock, and with 401 "Invalid token"
\* every token that fails one of the three checks, expired or not.
C7_VerifyOutcome ==
    (last.op = "authenticate" /\ last.decoded) =>
        LET c       == Claims(PresentedToken(last.auth_header))
            genuine == /\ c.parses
                       /\ c.alg \in jwt_algorithms
                       /\ c.signer = jwt_public_key
            expired == c.exp.kind # "none" /\ c.exp.at <= now
        IN  /\ last.status \in {200, 401}
            /\ last.status = 200 <=> (genuine /\ ~expired)
            /\ last.detail = "Token has expired" <=> (genuine /\ expired)
            /\ ~genuine => last.detail = "Invalid token"

\* C7 witness: a token with a foreign signature and an expiry in the past
\* was rejected as invalid.
C7_Witness ==
    /\ last.op = "authenticate"
    /\ last.decoded
    /\ Claims(PresentedToken(last.auth_header)).signer \notin PublicKeys
    /\ Claims(PresentedToken(last.auth_header)).exp.kind = "int"
    /\ Claims(PresentedToken(last.auth_header)).exp.at < now
    /\ last.detail = "Invalid token"

\* C8: every successful cryptographic verification leaves the token in
\* the verified-token cache, expiring at the token's own expiry when the
\* expiry claim is present and the remaining time positive, and after the
\* default cache TTL in every other case.
C8_CacheTtlFromExpiry ==
    (last.op = "authenticate" /\ last.detail = "Access granted after validation.") =>
        LET token == PresentedToken(last.auth_header)
            exp   == Claims(token).exp
            i     == CacheIndex(jwt_cache, token)
        IN  /\ i # 0
            /\ CASE exp.kind = "int" /\ exp.at - now > 0 ->
                      jwt_cache[i].expires = exp.at
                 [] exp.kind = "float" /\ exp.at + 1 - now > 0 ->
                      /\ jwt_cache[i].expires >= exp.at
                      /\ jwt_cache[i].expires <= exp.at + 1
                 [] OTHER ->
                      jwt_cache[i].expires = now + default_cache_ttl

\* The "ticket=" fields of the sampled query string, by position.
TicketOccurrences ==
    {i \in 1..Len(sample.fields) :
        sample.fields[i].name = <<"ticket">> /\ sample.fields[i].eq}

NonBlankTicketOccurrences ==
    {i \in TicketOccurrences : sample.fields[i].value # <<>>}

Last(S) == CHOOSE i \in S : \A j \in S : j <= i

\* C9 as stated: the result is the value of the last "ticket" field of the
\* query string when there is one, and absent when there is none.
C9_LastTicketWins ==
    last.op = "parse_ticket" =>
        IF TicketOccurrences # {}
        THEN last.ticket = sample.fields[Last(TicketOccurrences)].value
        ELSE last.ticket = None

\* C9 amended: the result is the value of the last "ticket" field that has
\* a non-empty value, and absent when the query string has no "ticket"
\* field with a non-empty value.
C9_LastNonBlankTicketWins ==
    last.op = "parse_ticket" =>
        IF NonBlankTicketOccurrences # {}
        THEN last.ticket = sample.fields[Last(NonBlankTicketOccurrences)].value
        ELSE last.ticket = None

\* C9 witness: the query repeats the key with two different values, a
\* blank "ticket=" follows, and the result is the second value.
C9_Witness ==
    /\ last.op = "parse_ticket"
    /\ Len(sample.fields) = 3
    /\ sample.fields[1].value = <<"a">>
    /\ sample.fields[2].value = <<"b">>
    /\ TicketOccurrences = {1, 2, 3}
    /\ NonBlankTicketOccurrences = {1, 2}
    /\ last.ticket = <<"b">>

\* C10: every POST /tickets returns an identifier no earlier call
\* returned, reports expires_in equal to the configured TTL, adds exactly
\* that ticket to the store, and leaves the validity of every earlier
\* ticket as it was.
C10_IssueAddsOneTicket ==
    [][last'.op = "create_ticket" =>
         /\ last'.ticket \notin IssuedTickets
         /\ last'.expires_in = ticket_ttl
         /\ CacheKeys(ticket_cache') = CacheKeys(ticket_cache) \cup {last'.ticket}
         /\ \A t \in IssuedTickets :
                validate_ticket(ticket_cache', t, now')
                    <=> validate_ticket(ticket_cache, t, now)]_vars

\* ------------------------------------------------------------ relay claims

\* What a frame is, read off the frame itself.

\* The frame is text that parses as a JSON object.
ParsesAsObject(frame) ==
    /\ frame.type = "text"
    /\ json_loads(frame).t = "dict"

\* A private control message: a JSON object whose method begins with
\* "<domain>.".
IsControlMessage(frame) ==
    /\ ParsesAsObject(frame)
    /\ json_loads(frame).method.t = "str"
    /\ StartsWith(json_loads(frame).method.s,
                  custom_command_domain \o <<".">>)

\* The id of the message, null when it has none.
IdOf(frame) == DictGet(json_loads(frame).id, JNull)

\* The step in which the inbound loop finishes with the frame it read.
HandledFrame ==
    /\ session.pc = "relaying"
    /\ session.data # NoFrame
    /\ session'.data = NoFrame
    /\ session'.pc = "relaying"

\* Neither peer has closed its connection.
PeersOpen ==
    /\ session.client_close = NoClose
    /\ session.upstream_close = NoClose

Answered == Len(to_client') = Len(to_client) + 1

Forwarded == to_upstream' = Append(to_upstream, session.data)

\* C11: in a Relaying session every inbound text frame that parses as a
\* JSON object whose method begins with "<domain>." is never sent
\* upstream and is answered with exactly one reply on the inbound
\* connection, whatever its id and params are.
C11_ControlMessagesIntercepted ==
    [][(HandledFrame /\ PeersOpen /\ IsControlMessage(session.data))
          => /\ to_upstream' = to_upstream
             /\ Answered
             /\ to_client'[Len(to_client')].kind = "json"]_vars

\* C12: every inbound frame that is not a private control message is sent
\* upstream exactly once, unmodified, and draws no reply; no frame is both
\* forwarded and answered, and none is dropped.
C12_OrdinaryFramesForwarded ==
    [][(HandledFrame /\ PeersOpen)
          => /\ ~IsControlMessage(session.data)
                   => (Forwarded /\ to_client' = to_client)
             /\ ~(to_upstream' # to_upstream /\ to_client' # to_client)
             /\ (to_upstream' # to_upstream \/ to_client' # to_client)]_vars

\* The message is "<domain>.setLoggingEnabled" as the control channel
\* processes it: the text names the method, params is absent or an
\* object, and enabled is absent or a boolean.
IsSetLoggingRequest(frame) ==
    /\ IsControlMessage(frame)
    /\ DomainIn(custom_command_domain, frame)
    /\ json_loads(frame).method.s = SetLoggingEnabled
    /\ json_loads(frame).params.t \in {"missing", "obj"}
    /\ json_loads(frame).params.t = "obj"
           => json_loads(frame).params.enabled.t \in {"missing", "bool"}

\* params.enabled, false when params or params.enabled is absent.
RequestedEnabled(frame) ==
    LET params == json_loads(frame).params
    IN  IF params.t = "obj" /\ params.enabled.t = "bool"
        THEN params.enabled.b
        ELSE FALSE

C14_UnknownVerbRejected ==
    [][(/\ HandledFrame
        /\ session.client_close = NoClose
        /\ IsControlMessage(session.data)
        /\ json_loads(session.data).method.s # SetLoggingEnabled)
          => /\ to_client' = Append(to_client,
                                    [kind |-> "json",
                                     id |-> IdOf(session.data),
                                     member |-> "error",
                                     code |-> -32601,
                                     message |-> "Method not found"])
             /\ to_upstream' = to_upstream
             /\ logging_state' = logging_state]_vars

\* Upstream closed its connection and the client did not.
UpstreamClosedFirst ==
    /\ session.upstream_close # NoClose
    /\ session.client_close = NoClose

\* C15: when upstream closes the connection first, with any close code
\* and reason, the inbound connection receives a close carrying the same
\* code and reason.
C15_UpstreamCloseRelayed ==
    (session.pc = "closed" /\ UpstreamClosedFirst)
        => \E i \in 1..Len(to_client) :
               to_client[i] = [kind |-> "close",
                               code |-> session.upstream_close.code,
                               reason |-> session.upstream_close.reason]

TaskEnded(task) == task \in {"done", "cancelled"}

\* One of the two loops of a Relaying session has ended.
LoopEnded ==
    /\ session.pc = "relaying"
    /\ \/ session.client_to_cdp_task = "done"
       \/ session.cdp_to_client_task = "done"

\* Closed: the handler has returned, upstream is closed, no task runs.
SessionClosed ==
    /\ session.pc = "closed"
    /\ session.upstream = "closed"
    /\ TaskEnded(session.client_to_cdp_task)
    /\ TaskEnded(session.cdp_to_client_task)

\* C16: whichever loop ends first, the session eventually reaches Closed
\* with upstream closed and both tasks terminated; the cancelled task
\* never blocks teardown and its cancellation draws no server-error
\* close.
C16_TeardownCompletes ==
    /\ LoopEnded ~> SessionClosed
    /\ [](session.upstream # "none"
            => \A i \in 1..Len(to_client) :
                   ~(to_client[i].kind = "close"
                     /\ to_client[i].code = InternalError))

\* A session closed after its pending task was cancelled.
C16_Witness ==
    /\ SessionClosed
    /\ \/ session.client_to_cdp_task = "cancelled"
       \/ session.cdp_to_client_task = "cancelled"

\* C17: an inbound session is accepted whether or not the proxy is
\* configured; an unconfigured proxy closes the accepted session with
\* code 1011 and a reason, opens no upstream connection and never
\* relays.
C17_UnconfiguredAcceptedThenClosed ==
    /\ session.pc # "start" => session.accepted
    /\ (session.pc = "closed" /\ ~is_configured(cdp_config))
           => /\ Len(to_client) = 1
              /\ to_client[1].kind = "close"
              /\ to_client[1].code = InternalError
              /\ to_client[1].reason # ""
              /\ session.connects = 0
              /\ session.client_to_cdp_task = "none"
              /\ session.cdp_to_client_task = "none"

\* websockets.connect was tried and gave no connection.
ConnectFailed ==
    /\ session.connects = 1
    /\ session.upstream = "none"

\* C18: when the upstream connection cannot be established the inbound
\* connection is closed with code 1011, neither directional task is
\* started and no inbound frame is relayed.
C18_ConnectFailureClosesInbound ==
    ConnectFailed
        => /\ Len(to_client) = 1
           /\ to_client[1].kind = "close"
           /\ to_client[1].code = InternalError
           /\ session.application_state = "DISCONNECTED"
           /\ session.client_to_cdp_task = "none"
           /\ session.cdp_to_client_task = "none"
           /\ inbound = <<>>
           /\ to_upstream = <<>>

\* The handler returned after a failed connect.
C18_Witness ==
    /\ ConnectFailed
    /\ session.pc = "closed"
    /\ session.accepted

IsPrefix(s, t) ==
    /\ Len(s) <= Len(t)
    /\ s = SubSeq(t, 1, Len(s))

\* The frames of upstream among what was sent to the client.
Delivered(sent) == SelectSeq(sent, LAMBDA m : m.kind \in {"text", "bytes"})

AsDelivered(messages) ==
    [i \in 1..Len(messages) |->
        [kind |-> messages[i].type, payload |-> messages[i].payload]]

\* C19: within each direction frames are delivered in the order received:
\* what was sent upstream is, in order, the non-control frames received
\* from the client; what the upstream loop sent to the client is, in
\* order and with the type preserved, the frames received from upstream.
\* While a session runs, what was sent is an initial part of that.
C19_OrderPreserved ==
    /\ IsPrefix(to_upstream,
                SelectSeq(inbound, LAMBDA f : ~IsControlMessage(f)))
    /\ IsPrefix(Delivered(to_client), AsDelivered(from_upstream))

\* C20: toggling logging does not disturb the stream: two runs fed the
\* same frames in both directions, differing only in the logging flag
\* (the value it starts with and the enabled values of the
\* setLoggingEnabled requests), send the same sequence upstream and the
\* same sequence to the client.
C20_LoggingDoesNotDisturb ==
    /\ to_upstream = twin.to_upstream
    /\ to_client = twin.to_client

\* The flags of the two runs differ after frames went both ways and a
\* request was answered.
C20_Witness ==
    /\ logging_state # twin.logging_state
    /\ to_upstream # <<>>
    /\ Delivered(to_client) # <<>>
    /\ \E i \in 1..Len(to_client) : to_client[i].kind = "json"

\* ------------------------------------------------------------ discovery claims

\* Both the upstream origin and the upstream host value are present.
FullyResolved(config) == config.cdp_origin # None /\ config.cdp_netloc # None

\* A discovery request has been answered.
Answers == http.exchange.request.method # "none"

\* C21: while the configuration is not fully resolved (origin or host
\* value missing), every discovery request is answered with 503, no
\* request is sent upstream and no HTTP client is created.
C21_UnconfiguredForwardFails ==
    ~FullyResolved(cdp_config) =>
        /\ http.created = 0
        /\ http.http_client = 0
        /\ http.inflight = <<>>
        /\ Answers =>
               /\ http.exchange.response.status = 503
               /\ http.exchange.outbound = NoOutbound

C21_Witness ==
    /\ cdp_config.cdp_origin # None
    /\ cdp_config.cdp_netloc = None
    /\ http.requests = MaxRequests
    /\ Answers

IsTimeout(exception) == exception \in {"ConnectTimeout", "ReadTimeout"}

IsRequestFailure(exception) ==
    exception \in {"ConnectError", "ReadError", "DecodingError"}

\* C24: a forward that fails is answered with exactly one status: 504
\* for an upstream timeout, 502 for any other connection or request
\* failure, 500 for any other exception; the 503 of an unconfigured
\* proxy stays 503.
C24_FailureMapping ==
    Answers =>
        LET raised == http.exchange.outcome.raised
            status == http.exchange.response.status
        IN  /\ ~FullyResolved(cdp_config) => status = 503
            /\ FullyResolved(cdp_config)
                   /\ http.exchange.outcome.kind = "raise" =>
                   status = IF IsTimeout(raised) THEN 504
                            ELSE IF IsRequestFailure(raised) THEN 502
                            ELSE 500

C24_Witness ==
    /\ Answers
    /\ FullyResolved(cdp_config)
    /\ http.exchange.outcome.raised = "ReadTimeout"
    /\ http.exchange.response.status = 504

\* C30: however discovery requests and shutdown interleave, a client is
\* made only once a configured request has begun, at most one client is
\* ever made and every request uses it, and when shutdown is over that
\* client was closed exactly once and the service holds no client.
C30_SingleSharedClient ==
    /\ http.created <= 1
    /\ http.created > 0 => http.requests > 0 /\ FullyResolved(cdp_config)
    /\ http.http_client \in {0, 1}
    /\ \A i \in 1..Len(http.inflight) : http.inflight[i].client = 1
    /\ Len(http.aclosed) <= 1
    /\ http.lifespan = "down" =>
           /\ http.http_client = 0
           /\ http.aclosed = [i \in 1..http.created |-> i]

C30_Witness ==
    /\ http.lifespan = "down"
    /\ http.created = 1
    /\ http.requests = MaxRequests
    /\ http.aclosed = <<1>>
    /\ Len(http.inflight) > 0

\* C22: an upstream response whose status is not 2xx is returned with
\* the same status, headers and body.
C22_ErrorResponsesPassThrough ==
    Answers /\ http.exchange.outcome.kind = "response"
            /\ http.exchange.outcome.status \notin 200..299 =>
        /\ http.exchange.response.status = http.exchange.outcome.status
        /\ http.exchange.response.headers = http.exchange.outcome.headers
        /\ http.exchange.response.body = http.exchange.outcome.body

C22_Witness ==
    /\ Answers
    /\ http.exchange.outcome.status = 404
    /\ \E i \in 1..Len(sample.items) :
           MatchAt(sample.items[i], 1).end # 0
    /\ http.exchange.response.body = RenderBody(sample.items)

\* A quoted session URL: a quote, ws:// or wss://, a host, a path that
\* starts with /devtools/, a quote.
IsSessionUrl(item) ==
    /\ Len(item) >= 7
    /\ item[1] = Quote
    /\ item[2] \in {"ws://", "wss://"}
    /\ ~HasSlash(item[3]) /\ item[3] # Quote
    /\ SubSeq(item, 4, 6) = <<"/", "devtools", "/">>
    /\ item[Len(item)] = Quote
    /\ \A i \in 2..(Len(item) - 1) : item[i] # Quote

\* The inbound Host of a request.
InboundHost(request) ==
    IF \E i \in 1..Len(request.headers) : request.headers[i][1] = <<"host">>
    THEN HeaderGet(request.headers, <<"host">>, <<>>)
    ELSE request.netloc

\* The session URL of the claim for a request: the scheme by the inbound
\* scheme, the inbound Host, the forwarded prefix, the same path.
SessionUrlFor(request, item) ==
    <<Quote, IF request.scheme = "https" THEN "wss://" ELSE "ws://">>
        \o InboundHost(request)
        \o HeaderGet(request.headers, <<"x-forwarded-prefix">>, <<>>)
        \o SubSeq(item, 4, Len(item))

\* C23: in a 200 response every quoted session URL is replaced by the
\* URL on the inbound host and prefix with the same path, wss exactly
\* for https, and the rest of the body is unchanged.
C23_SessionUrlsRewritten ==
    Answers /\ http.exchange.outcome.kind = "response"
            /\ http.exchange.outcome.status = 200 =>
        http.exchange.response.body =
            RenderBody([i \in 1..Len(sample.items) |->
                           IF IsSessionUrl(sample.items[i])
                           THEN SessionUrlFor(http.exchange.request,
                                              sample.items[i])
                           ELSE sample.items[i]])

\* C25: the upstream request goes to the origin followed by the inbound
\* path, carries every inbound header but host and accept-encoding, and
\* has Host set to the configured upstream host.
C25_OutboundRequest ==
    \A i \in 1..Len(http.inflight) :
        LET request == http.inflight[i].request
            outbound == http.inflight[i].outbound
            Carried(header) ==
                \E j \in 1..Len(outbound.headers) :
                    outbound.headers[j] = header
        IN  outbound # NoOutbound =>
                /\ outbound.url = cdp_config.cdp_origin \o request.path
                /\ \A k \in 1..Len(request.headers) :
                       request.headers[k][1] \notin SkippedHeaders =>
                           Carried(request.headers[k])
                /\ Carried(Header(<<"Host">>, cdp_config.cdp_netloc))
                /\ \A j \in 1..Len(outbound.headers) :
                       outbound.headers[j][1] \notin SkippedHeaders

\* ------------------------------------------------------------ session end claims

\* The closes sent on the inbound connection: close frames and refused
\* handshakes.
InboundCloses ==
    {i \in 1..Len(to_client) : to_client[i].kind \in {"close", "reject"}}

\* C26: however a session ends, the inbound connection is sent at most
\* one close, an upstream connection that was opened is closed exactly
\* once (and none is closed that was not opened), and the close of a
\* connection that is already closed does not make the handler fail.
C26_ClosedOnce ==
    /\ Cardinality(InboundCloses) <= 1
    /\ session.upstream_closes <= 1
    /\ session.upstream = "none" => session.upstream_closes = 0
    /\ session.pc \in {"finally", "closed"} =>
           /\ session.upstream \in {"none", "closed"}
           /\ session.upstream # "none" => session.upstream_closes = 1
    /\ ~session.failed

\* A session that ended after a failed connect: the close of finally
\* met a connection the handler had closed.
C26_Witness ==
    /\ session.pc = "closed"
    /\ session.connects = 1
    /\ session.upstream = "none"
    /\ session.application_state = "DISCONNECTED"
    /\ Cardinality(InboundCloses) = 1

\* C27: a session in which a forwarding loop met an unexpected
\* exception ends with a close of the inbound connection that carries
\* the code 1011.
C27_InternalErrorCloses1011 ==
    session.pc = "closed" /\ session.raised # "none"
                          /\ session.client_state # "DISCONNECTED" =>
        \E i \in InboundCloses : to_client[i].code = 1011

\* The state of the session's state machine.
SessionState(s) ==
    CASE s.pc \in {"start", "connect"} -> "Connecting"
      [] s.pc = "relaying" -> "Relaying"
      [] s.pc \in {"exit", "finally"} -> "Closing"
      [] s.pc = "closed" -> "Closed"

StateRank(state) ==
    CASE state = "Connecting" -> 1
      [] state = "Relaying" -> 2
      [] state = "Closing" -> 3
      [] state = "Closed" -> 4

\* The frames relayed to the client: what is neither a close nor the
\* reply to a control message.
RelayedToClient ==
    SelectSeq(to_client, LAMBDA m : m.kind \in {"text", "bytes"})

\* C28: the state of a session never goes back, nothing changes once it
\* is Closed, and a frame is relayed in either direction only in a step
\* taken while Relaying, with the upstream connection open.
C28_ForwardOnly ==
    [][/\ StateRank(SessionState(session'))
              >= StateRank(SessionState(session))
       /\ SessionState(session) = "Closed" =>
              /\ session' = session
              /\ to_upstream' = to_upstream
              /\ to_client' = to_client
       /\ to_upstream' # to_upstream \/ RelayedToClient' # RelayedToClient =>
              /\ SessionState(session) = "Relaying"
              /\ session.upstream = "open"]_vars

\* Frames were relayed in both directions and the session has closed.
C28_Witness ==
    /\ session.pc = "closed"
    /\ to_upstream # <<>>
    /\ RelayedToClient # <<>>

\* A "<domain>.setLoggingEnabled" message.
IsSetLoggingMessage(frame) ==
    /\ IsControlMessage(frame)
    /\ json_loads(frame).method.s = SetLoggingEnabled

\* C29: once a session has its logging flag, the flag changes only in a
\* step in which the session's inbound-reading task finishes a
\* "<domain>.setLoggingEnabled" message; the steps of the other loop, of
\* other messages and of any other session leave it unchanged.
C29_FlagWrittenByControlHandlerOnly ==
    [][session.accepted /\ logging_state' # logging_state =>
           /\ session.client_to_cdp_task = "handle"
           /\ session'.client_to_cdp_task # "handle"
           /\ IsSetLoggingMessage(session.data)
           /\ twin' = twin]_vars

\* The session's flag was switched on by its own request while the
\* other session switched its own flag, and frames went both ways.
C29_Witness ==
    /\ logging_state
    /\ ~twin.logging_state
    /\ Len(inbound) = MaxInbound
    /\ to_upstream # <<>>
    /\ RelayedToClient # <<>>
    /\ \E i \in 1..Len(inbound) : ~IsControlMessage(inbound[i])

\* ------------------------------------------------------------ closing claims

\* C31: an inbound discovery request causes at most one upstream request
\* and a session at most one upstream connection attempt: whatever the
\* upstream request or connection ends in, nothing is sent or opened
\* again for it.
C31_NoRetries ==
    /\ \A i \in 1..Len(http.inflight) : http.inflight[i].sends <= 1
    /\ http.exchange.sends <= 1
    /\ session.connects <= 1
    /\ session.pc \in {"finally", "closed"} =>
           session.upstream \in {"none", "closed"}

\* A request timed out and the session's upstream closed; both have
\* ended.
C31_Witness ==
    /\ http.exchange.outcome.raised = "ConnectTimeout"
    /\ http.exchange.sends = 1
    /\ http.requests = 1
    /\ http.inflight = <<>>
    /\ session.pc = "closed"
    /\ session.upstream_close # NoClose
    /\ session.connects = 1

\* A step that answers GET /auth.
AuthorizeStep == last' # last /\ last'.op = "authenticate"

\* C32: a step of authorize leaves the ticket store unchanged, and
\* leaves the verified-token cache unchanged unless it ends in a
\* successful fresh verification, which changes nothing but the entry
\* of the presented token.
C32_AuthorizeOnlyCachesVerified ==
    [][AuthorizeStep =>
           /\ ticket_cache' = ticket_cache
           /\ IF last'.detail = "Access granted after validation."
              THEN LET token == PresentedToken(last'.auth_header)
                   IN  /\ CacheIndex(jwt_cache', token) # 0
                       /\ SelectSeq(jwt_cache', LAMBDA e : e.key # token)
                              = SelectSeq(jwt_cache, LAMBDA e : e.key # token)
              ELSE jwt_cache' = jwt_cache]_vars

\* C34: a token that carries an expiry claim is not accepted by verify,
\* freshly or from the cache, at a time later than that expiry.
C34_NoAcceptAfterExpiry ==
    [][AuthorizeStep /\ last'.jwt_called /\ last'.status = 200 =>
           LET exp == Claims(PresentedToken(last'.auth_header)).exp
           IN  exp.kind # "none" => now <= exp.at]_vars
\* C33: the ticket TTL is the environment value when that value is an
\* integer not below 0, the default of 30 seconds when the value is
\* absent, not an integer or negative, and never negative.
C33_TicketTtlLoaded ==
    sample.loaded =>
        /\ ticket_ttl >= 0
        /\ ticket_ttl = IF IsInt(sample.raw) /\ IntValue(sample.raw) >= 0
                        THEN IntValue(sample.raw)
                        ELSE 30

\* A negative value was loaded and the default taken; a padded, signed
\* one is covered by the same run.
C33_Witness ==
    /\ sample.loaded
    /\ sample.raw = <<"-", "1", "3">>
    /\ ticket_ttl = 30

\* C35: the rewrite of an already rewritten body, for the same host,
\* scheme and prefix, returns that body.
C35_RewriteIdempotent ==
    Len(sample.bodies) = 3 => sample.bodies[3] = sample.bodies[2]

====
